---- MODULE Spec2Model ----
(***************************************************************************)
(* A model of the geometry pipeline of dactyl_lynx_keyboard:               *)
(*   layouts/finger_well.py  FingerWellLayout                              *)
(*   assembly.py             KeyboardAssembly                              *)
(* Shapes are records (the tree of solid-modelling operations the code     *)
(* builds); lengths are integers in micrometres (1 mm = 1000).             *)
(***************************************************************************)
EXTENDS Integers, Sequences, FiniteSets, TLC

\* Largest grid the model constructs (columns, rows of the finger well).
MaxColumns == 6
MaxRows == 6

VARIABLES
    finger_layout,  \* the FingerWellLayout owned by the assembly
    self,           \* the KeyboardAssembly's own attributes
    pc,             \* "idle", the generator being iterated, or "returned"
    frame,          \* the running generator's local state
    result          \* what the call that just finished returned (or raised)

vars == <<finger_layout, self, pc, frame, result>>

\* ------------------------------------------------------------------------
\* Options and small helpers
\* ------------------------------------------------------------------------

\* Python's None / a value, as a set of at most one element.
None == {}
Some(x) == {x}

Range(s) == {s[i] : i \in DOMAIN s}

\* A Python number passed as a column or a row: an int, or a float given in
\* thousandths (PyFloat(1500) is 1.5, PyFloat(2000) is 2.0).
PyInt(n) == [type |-> "int", v |-> n * 1000]
PyFloat(thousandths) == [type |-> "float", v |-> thousandths]

\* isinstance(n, float) and not n.is_integer()
IsFractional(n) == n.type = "float" /\ n.v % 1000 # 0

RECURSIVE Flatten(_)
Flatten(ss) == IF ss = <<>> THEN <<>> ELSE Head(ss) \o Flatten(Tail(ss))

\* ------------------------------------------------------------------------
\* layouts/layout.py (Layout, the base class) is not among the sources: its
\* members are modelled from the specification's section 4.1.
\* ------------------------------------------------------------------------

\* generate_positions(): the valid (column, row) pairs, columns outermost,
\* excluding the skip list.
generate_positions(layout) ==
    LET n == layout.columns * layout.rows
        all == [k \in 1..n |-> <<(k - 1) \div layout.rows, (k - 1) % layout.rows>>]
        keep(p) == p \notin layout.positions_to_skip
    IN SelectSeq(all, keep)

\* key_place(column, row, shape): the shape moved to the key's placement.
key_place(column, row, shape) ==
    [t |-> "key_place", column |-> column, row |-> row, shape |-> shape]

\* web_corner(column, row, left, top, **web_kwargs): one corner post of a key.
web_corner(column, row, left, top, kw) ==
    [t |-> "web_corner", column |-> column, row |-> row,
     left |-> left, top |-> top, kw |-> kw]

\* The keyword arguments of the web_* functions when none is passed.
default_web_kwargs ==
    [z_offset |-> 0, thickness |-> None, size_adjust |-> None, position_adjust |-> None]

\* web_top_left_of / web_left_of / web_above (column, row, **web_kwargs): the
\* filler between a position and its neighbour(s).
web_element(kind, column, row, kw) ==
    [t |-> kind, column |-> column, row |-> row, kw |-> kw]

\* The positions a web element connects: its own and its neighbours'.
web_connects(w) ==
    CASE w.t = "web_top_left_of" ->
            {<<w.column, w.row>>, <<w.column - 1, w.row - 1>>,
             <<w.column - 1, w.row>>, <<w.column, w.row - 1>>}
      [] w.t = "web_left_of" -> {<<w.column, w.row>>, <<w.column - 1, w.row>>}
      [] w.t = "web_above" -> {<<w.column, w.row>>, <<w.column, w.row - 1>>}

\* place_all(shape): the shape (or the callback's shape) at every position;
\* shape_at is the function position -> shape.
place_all(layout, shape_at) ==
    LET ps == generate_positions(layout)
    IN [i \in 1..Len(ps) |-> key_place(ps[i][1], ps[i][2], shape_at[ps[i]])]

\* ------------------------------------------------------------------------
\* layouts/finger_well.py
\* ------------------------------------------------------------------------

\* FingerWellLayout.__init__
FingerWellLayout(columns, rows, use_1_5u_keys) ==
    [columns |-> columns, rows |-> rows, use_1_5u_keys |-> use_1_5u_keys,
     placement_transform |-> <<0, 0, 30500>>,
     positions_to_skip |-> {<<0, 4>>}]

\* column_adjust without the `column >= 5` of its condition: every column of
\* a 1.5u layout is adjusted.
column_adjust_all(layout, column) ==
    IF layout.use_1_5u_keys
    THEN PyFloat(column.v + (column.v - 4000) \div 4)
    ELSE column

\* column_adjust(column)
column_adjust(layout, column) ==
    IF layout.use_1_5u_keys /\ column.v >= 5000
    THEN PyFloat(column.v + (column.v - 4000) \div 4)
    ELSE column

\* placement_adjust with `column >= 2` for its first test.
placement_adjust_from_2(column, row, shape) ==
    IF column.v >= 2000 THEN [t |-> "translate", v |-> <<0, 6820, -4000>>, shape |-> shape]
    ELSE IF column.v >= 4000 THEN [t |-> "translate", v |-> <<0, -20800, 7640>>, shape |-> shape]
    ELSE shape

\* placement_adjust(column, row, shape)
placement_adjust(column, row, shape) ==
    IF column.v = 2000 THEN [t |-> "translate", v |-> <<0, 6820, -4000>>, shape |-> shape]
    ELSE IF column.v >= 4000 THEN [t |-> "translate", v |-> <<0, -20800, 7640>>, shape |-> shape]
    ELSE shape

\* FingerWellLayout(): the layout with its own default arguments.
FingerWellLayoutDefault == FingerWellLayout(6, 5, TRUE)

\* web_all's three generator expressions, in chain order.
WebAllKinds == <<"web_top_left_of", "web_left_of", "web_above">>

\* WebAllFilter without the `row > 0` of the third generator: web_above is
\* yielded for the first row too.
WebAllFilter_any_row(gen, column, row) ==
    CASE gen = 1 -> column > 0 /\ row > 0 /\ (column # 1 \/ row # 4)
      [] gen = 2 -> column > 0 /\ (column # 1 \/ row # 4)
      [] gen = 3 -> TRUE

\* WebAllFilter with the exception for (1, 4) written with `and`: it drops
\* the whole of column 1 and of row 4.
WebAllFilter_and(gen, column, row) ==
    CASE gen = 1 -> column > 0 /\ row > 0 /\ (column # 1 /\ row # 4)
      [] gen = 2 -> column > 0 /\ (column # 1 /\ row # 4)
      [] gen = 3 -> row > 0

\* The `if` clause of generator `gen` of web_all.
WebAllFilter(gen, column, row) ==
    CASE gen = 1 -> column > 0 /\ row > 0 /\ (column # 1 \/ row # 4)
      [] gen = 2 -> column > 0 /\ (column # 1 \/ row # 4)
      [] gen = 3 -> row > 0

\* One generator expression of web_all, run to its end.
WebAllGen(layout, gen, kw) ==
    LET ps == generate_positions(layout)
        keep(p) == WebAllFilter(gen, p[1], p[2])
        kept == SelectSeq(ps, keep)
    IN [i \in 1..Len(kept) |-> web_element(WebAllKinds[gen], kept[i][1], kept[i][2], kw)]

\* chain(...) of web_all: every element the three generators yield.
WebAllChain(layout, kw) ==
    WebAllGen(layout, 1, kw) \o WebAllGen(layout, 2, kw) \o WebAllGen(layout, 3, kw)

\* reduce(operator.add, chain) without an initial value: the union of the
\* elements, or TypeError when the chain yields nothing.
ReduceAdd(elements) ==
    IF elements = <<>>
    THEN [raised |-> "TypeError", tree |-> <<>>]
    ELSE [raised |-> "", tree |-> elements]

\* FingerWellLayout.web_all(**web_kwargs), run to its end.
web_all(layout, kw) == ReduceAdd(WebAllChain(layout, kw))

\* ------------------------------------------------------------------------
\* assembly.py: KeyboardAssembly
\* ------------------------------------------------------------------------

\* A primitive or footprint of the external libraries (solid2, spkb, the
\* connector and TrackPoint mounts), by name.
Ext(name) == [t |-> "ext", name |-> name]

Translate(v, shape) == [t |-> "translate", v |-> v, shape |-> shape]
Mirror(v, shape) == [t |-> "mirror", v |-> v, shape |-> shape]
Hull(shapes) == [t |-> "hull", shapes |-> shapes]

\* One operand of a part's expression: added (+) or subtracted (-).
Term(op, part, shapes) == [op |-> op, part |-> part, shapes |-> shapes]

\* KeyboardAssembly.__init__
KeyboardAssembly(use_color, socket_shape) ==
    [use_color |-> use_color,
     socket_shape |-> IF socket_shape = "None" THEN "plate_lambda" ELSE socket_shape,
     thumb_layout |-> "ThumbWellLayout",
     connector_mount |-> "MiniDINConnectorMount",
     trackpoint_mount |-> "TrackPointMount",
     tenting_nut |-> [t |-> "tenting_nut", thread |-> TRUE],
     tenting_nut_unthreaded |-> [t |-> "tenting_nut", thread |-> FALSE],
     left_side |-> FALSE,
     enable_trackpoint |-> TRUE,
     enable_nuts |-> FALSE,
     bottom_thumb_nuts |-> FALSE,
     edge_vertical_offset |-> 8000,
     bottom_cover_offset |-> 11000,
     bottom_cover_edge_protusion |-> "keyswitch_length - 1",
     bottom_cover_thickness |-> 3000,
     bottom_cover_post_size |-> 200,
     bottom_cover_magnet_mount_thickness |-> 1500,
     bottom_cover_magnet_radius |-> 2500,
     bottom_cover_magnet_thickness |-> 3000,
     bottom_cover_magnet_offset |-> 13700]

\* The default arguments of KeyboardAssembly(columns, rows, use_1_5u_keys).
KeyboardAssemblyDefaults == [columns |-> 6, rows |-> 5, use_1_5u_keys |-> FALSE]

\* self.finger_layout = FingerWellLayout(columns=columns, rows=rows,
\* use_1_5u_keys=use_1_5u_keys, ...) of KeyboardAssembly.__init__.
KeyboardAssemblyLayout(columns, rows, use_1_5u_keys) ==
    FingerWellLayout(columns, rows, use_1_5u_keys)

\* transform_board / transform_connector_mount / transform_trackpoint_mount
\* and the nut transforms: a fixed placement of the shape.
transform(name, shape) == [t |-> "transform", name |-> name, shape |-> shape]

\* self.socket_shape(column, row): the constructor's callback, or the lambda
\* __init__ stores when none is given (the keyswitch's plate).
socket_shape_call(a, column, row) ==
    IF a.socket_shape = "plate_lambda"
    THEN Ext("keyswitch.plate")
    ELSE [t |-> "socket_shape", column |-> column, row |-> row]

\* A length the external libraries fix (keyswitch and keycap sizes), by
\* the expression that computes it, with its sign; Zero is the number 0.
Sym(sign, expr) == [sign |-> sign, expr |-> expr]
Zero == Sym(0, "0")

\* The stabilizer mount of switch_socket for a fractional row (along "y")
\* or a fractional column (along "x"): a centred cube moved off centre
\* along that axis and down by half the web thickness.
StabilizerMount(along) ==
    IF along = "y"
    THEN Translate(<< Zero,
                      Sym(1, "(plate_height + keyswitch_length) / 2 + wall_thickness"),
                      Sym(-1, "web_thickness / 2") >>,
                   [t |-> "cube",
                    size |-> << "keyswitch_width + wall_thickness * 2", "plate_height",
                                "web_thickness" >>])
    ELSE Translate(<< Sym(1, "(plate_width + keyswitch_width) / 2 + wall_thickness"),
                      Zero,
                      Sym(-1, "web_thickness / 2") >>,
                   [t |-> "cube",
                    size |-> << "plate_width", "keyswitch_length + wall_thickness * 2",
                                "web_thickness" >>])

\* shape + stabilizer_mount + stabilizer_mount.mirror(0, 1, 0)
WithStabilizers(shape, along) ==
    [t |-> "union",
     shapes |-> << shape, StabilizerMount(along),
                   Mirror(<<0, 1, 0>>, StabilizerMount(along)) >>]

\* switch_socket that takes every float for a fractional position.
switch_socket_any_float(a, column, row) ==
    LET base == IF a.socket_shape = "None"
                THEN Ext("keyswitch.plate")
                ELSE socket_shape_call(a, column, row)
        shape == IF row.type = "float" THEN WithStabilizers(base, "y")
                 ELSE IF column.type = "float" THEN WithStabilizers(base, "x")
                 ELSE base
    IN IF a.left_side THEN Mirror(<<1, 0, 0>>, shape) ELSE shape

\* switch_socket(column, row): the socket shape, with the stabilizer mounts
\* of a fractional position, mirrored on the left-hand side.
switch_socket(a, column, row) ==
    LET base == IF a.socket_shape = "None"
                THEN Ext("keyswitch.plate")
                ELSE socket_shape_call(a, column, row)
        shape == IF IsFractional(row) THEN WithStabilizers(base, "y")
                 ELSE IF IsFractional(column) THEN WithStabilizers(base, "x")
                 ELSE base
    IN IF a.left_side THEN Mirror(<<1, 0, 0>>, shape) ELSE shape

\* bottom_cover_size_adjust(column, row)
bottom_cover_size_adjust(column, row) ==
    IF column.v = 2000 THEN <<2000, 0>>
    ELSE IF column.v = 4000 THEN <<-2000, 0>>
    ELSE <<0, 0>>

\* bottom_cover_position_adjust(column, row)
bottom_cover_position_adjust(column, row) ==
    IF column.v = 1000 THEN <<-2000, 0>>
    ELSE IF column.v \in {3000, 4000} THEN <<2000, 0>>
    ELSE <<0, 0>>

\* The slab of switch_bottom_cover: cube(width + extra_width,
\* length + extra_length, bottom_cover_thickness, center=True), moved by
\* the position adjustment and below the key.
CoverSlab(a, width, length, extra, shift) ==
    Translate(<<shift[1], shift[2], -a.bottom_cover_offset - a.bottom_cover_thickness \div 2>>,
              [t |-> "cube",
               x |-> [base |-> width, extra |-> extra[1]],
               y |-> [base |-> length, extra |-> extra[2]],
               z |-> a.bottom_cover_thickness])

\* switch_bottom_cover that tests the column before the row.
switch_bottom_cover_column_first(a, column, row) ==
    LET extra == bottom_cover_size_adjust(column, row)
        shift == bottom_cover_position_adjust(column, row)
    IN IF IsFractional(column)
       THEN CoverSlab(a, "sa_double_length", "keyswitch_length + wall_thickness * 2",
                      extra, shift)
       ELSE IF IsFractional(row)
       THEN CoverSlab(a, "keyswitch_width + wall_thickness * 2", "sa_double_length",
                      extra, shift)
       ELSE CoverSlab(a, "keyswitch_width + wall_thickness * 2",
                      "keyswitch_length + wall_thickness * 2", extra, shift)

\* switch_bottom_cover(column, row): the slab below the key.
switch_bottom_cover(a, column, row) ==
    LET extra == bottom_cover_size_adjust(column, row)
        shift == bottom_cover_position_adjust(column, row)
    IN IF IsFractional(row)
       THEN CoverSlab(a, "keyswitch_width + wall_thickness * 2", "sa_double_length",
                      extra, shift)
       ELSE IF IsFractional(column)
       THEN CoverSlab(a, "sa_double_length", "keyswitch_length + wall_thickness * 2",
                      extra, shift)
       ELSE CoverSlab(a, "keyswitch_width + wall_thickness * 2",
                      "keyswitch_length + wall_thickness * 2", extra, shift)

\* cover_magnet_mount(top_shell)
cover_magnet_mount(a, top_shell) ==
    LET radius == a.bottom_cover_magnet_radius + a.bottom_cover_magnet_mount_thickness
        shape == [t |-> "union", shapes |-> <<
                    [t |-> "cylinder_outer", r |-> radius,
                     h |-> a.bottom_cover_magnet_thickness,
                     z |-> a.bottom_cover_magnet_thickness \div 2],
                    [t |-> "half_sphere", r |-> radius, segments |-> 12,
                     z |-> a.bottom_cover_magnet_thickness] >>]
    IN IF ~top_shell THEN Mirror(<<0, 0, 1>>, shape) ELSE shape

\* One cylinder_outer(...) of the magnet hole: r1 the lower radius, r2 the
\* upper one, h the height, z the height of its centre.
Cyl(r1, r2, h, z) == [t |-> "cylinder_outer", r1 |-> r1, r2 |-> r2, h |-> h, segments |-> 6, z |-> z]

\* cover_magnet_hole(top_shell)
cover_magnet_hole(a, top_shell) ==
    LET hex_radius == (a.bottom_cover_magnet_radius * 99) \div 100
        hex_chamfer_width == 300
        end_groove_depth == 500
        end_groove_radius == hex_radius + end_groove_depth
        end_groove_height == 500
        th == a.bottom_cover_magnet_thickness
    IN [t |-> "union", shapes |-> <<
          Cyl(end_groove_radius, end_groove_radius, end_groove_height,
              th - end_groove_height \div 2),
          Cyl(hex_radius, end_groove_radius, end_groove_depth,
              th - end_groove_height - end_groove_depth \div 2),
          Cyl(hex_radius, hex_radius + hex_chamfer_width, end_groove_depth,
              -(end_groove_depth \div 2)),
          Cyl(hex_radius, hex_radius, th * 2, 0),
          Cyl(hex_radius + hex_chamfer_width, hex_radius, end_groove_depth,
              end_groove_depth \div 2),
          Cyl(end_groove_radius, hex_radius, end_groove_depth,
              -(th - end_groove_height - end_groove_depth \div 2)),
          Cyl(end_groove_radius, end_groove_radius, end_groove_height,
              -(th - end_groove_height \div 2)) >>]

\* The six magnet places: column, row and the in-plane shift (x, y) as
\* multiples of bottom_cover_magnet_offset plus a fixed part.
MagnetPlaces ==
    << [column |-> 0, row |-> 0, ox |-> 0,  oy |-> 1,  dx |-> 0],
       [column |-> 0, row |-> 2, ox |-> -1, oy |-> 0,  dx |-> 0],
       [column |-> 1, row |-> 4, ox |-> 0,  oy |-> -1, dx |-> 0],
       [column |-> 5, row |-> 4, ox |-> 0,  oy |-> -1, dx |-> 0],
       [column |-> 5, row |-> 2, ox |-> 1,  oy |-> 0,  dx |-> 0],
       [column |-> 5, row |-> 0, ox |-> 0,  oy |-> 1,  dx |-> -1500] >>

\* The shape, moved down by edge_vertical_offset, at each of the places.
PlaceAt(a, shape, places) ==
    LET offset == a.bottom_cover_magnet_offset
    IN [i \in 1..Len(places) |->
          LET m == places[i]
          IN key_place(m.column, m.row,
                       Translate(<<m.ox * offset + m.dx, m.oy * offset,
                                   -a.edge_vertical_offset>>, shape))]

\* place_cover_magnets without the .left(1.5) of the magnet at (5, 0).
place_cover_magnets_centred(a, shape) ==
    PlaceAt(a, shape, [MagnetPlaces EXCEPT ![6].dx = 0])

\* place_cover_magnets(shape)
place_cover_magnets(a, shape) == PlaceAt(a, shape, MagnetPlaces)

\* vertical_offset with the post's half height added for both shells.
EdgePostVerticalOffset_below(a, top_shell) ==
    a.edge_vertical_offset + a.bottom_cover_post_size \div 2

\* vertical_offset of cover_edge_corner: edge_vertical_offset +
\* bottom_cover_post_size / (-2 if top_shell else 2).
EdgePostVerticalOffset(a, top_shell) ==
    a.edge_vertical_offset + (IF top_shell THEN -(a.bottom_cover_post_size \div 2)
                                           ELSE a.bottom_cover_post_size \div 2)

\* The outer post's extra shift without the halving.
EdgePostExtra_whole(a, outer) ==
    IF outer THEN a.bottom_cover_thickness - a.bottom_cover_post_size ELSE 0

\* (bottom_cover_thickness - bottom_cover_post_size) / 2 if outer else 0:
\* what cover_edge_corner adds to bottom_cover_edge_protusion.
EdgePostExtra(a, outer) ==
    IF outer THEN (a.bottom_cover_thickness - a.bottom_cover_post_size) \div 2 ELSE 0

\* cover_edge_corner(side, column, row, left, top, top_shell,
\* offset_along_edge, outer): the post's size and its shift in the key's
\* frame; the shift across the edge is `across` times
\* bottom_cover_edge_protusion plus the micrometres given.
cover_edge_corner(a, side, column, row, left, top, top_shell, offset_along_edge, outer) ==
    LET vertical_offset == EdgePostVerticalOffset(a, top_shell)
        size == << IF side /\ ~outer THEN a.bottom_cover_thickness ELSE a.bottom_cover_post_size,
                   IF ~side /\ ~outer THEN a.bottom_cover_thickness ELSE a.bottom_cover_post_size,
                   a.bottom_cover_post_size >>
        extra == EdgePostExtra(a, outer)
        post == IF side
                THEN [size |-> size,
                      x_protusions |-> IF left THEN -1 ELSE 1,
                      x |-> IF left THEN -extra ELSE extra,
                      y_protusions |-> 0,
                      y |-> (IF top THEN 10000 ELSE -10000) + offset_along_edge,
                      z |-> -vertical_offset]
                ELSE [size |-> size,
                      x_protusions |-> 0,
                      x |-> -((IF left THEN 10000 ELSE -10000) + offset_along_edge),
                      y_protusions |-> IF top THEN 1 ELSE -1,
                      y |-> IF top THEN extra ELSE -extra,
                      z |-> -vertical_offset]
    IN [t |-> "cover_edge_corner", side |-> side, column |-> column, row |-> row,
        left |-> left, top |-> top, top_shell |-> top_shell,
        offset_along_edge |-> offset_along_edge, outer |-> outer, post |-> post]

\* bottom_cover_web_kwargs without its 'size_adjust' entry.
bottom_cover_web_kwargs_no_size(a) ==
    [z_offset |-> -a.bottom_cover_offset,
     thickness |-> Some(a.bottom_cover_thickness),
     size_adjust |-> None,
     position_adjust |-> Some("bottom_cover_position_adjust")]

\* bottom_cover_web_kwargs()
bottom_cover_web_kwargs(a) ==
    [z_offset |-> -a.bottom_cover_offset,
     thickness |-> Some(a.bottom_cover_thickness),
     size_adjust |-> Some("bottom_cover_size_adjust"),
     position_adjust |-> Some("bottom_cover_position_adjust")]

\* One entry of generate_cover_edge_corners: the arguments of its
\* cover_edge_corner(...) call and of its web_corner(...) call.
EdgeCall(side, column, row, left, top, offset_along_edge, wc, wr, wl, wt) ==
    [side |-> side, column |-> column, row |-> row, left |-> left, top |-> top,
     offset_along_edge |-> offset_along_edge,
     web |-> [column |-> wc, row |-> wr, left |-> wl, top |-> wt]]

\* The nested tuple of generate_cover_edge_corners(top_shell), as the calls
\* it makes, in source order.
EdgeCornerCalls(top_shell) ==
       <<
           <<
               EdgeCall(TRUE, 0, 1, TRUE, TRUE, 0, 0, 1, TRUE, TRUE),
               EdgeCall(TRUE, 0, 1, TRUE, FALSE, 0, 0, 1, TRUE, FALSE),
               EdgeCall(TRUE, 0, 2, TRUE, TRUE, 0, 0, 2, TRUE, TRUE),
               EdgeCall(TRUE, 0, 2, TRUE, FALSE, 0, 0, 2, TRUE, FALSE),
               EdgeCall(TRUE, 0, 3, TRUE, TRUE, 0, 0, 3, TRUE, TRUE),
               EdgeCall(TRUE, 0, 3, TRUE, FALSE, 7000, 0, 3, TRUE, FALSE)
           >>,
           <<
               EdgeCall(FALSE, 1, 4, TRUE, FALSE, -7000, 1, 4, TRUE, FALSE),
               EdgeCall(FALSE, 1, 4, FALSE, FALSE, -3000, 1, 4, FALSE, FALSE),
               EdgeCall(FALSE, 2, 4, TRUE, FALSE, -3000, 2, 4, TRUE, FALSE),
               EdgeCall(FALSE, 2, 4, FALSE, FALSE, 3000, 2, 4, FALSE, FALSE),
               EdgeCall(FALSE, 3, 4, TRUE, FALSE, 3000, 3, 4, TRUE, FALSE),
               EdgeCall(FALSE, 3, 4, FALSE, FALSE, 3000, 3, 4, FALSE, FALSE),
               EdgeCall(FALSE, 4, 4, TRUE, FALSE, 3000, 4, 4, TRUE, FALSE),
               EdgeCall(FALSE, 4, 4, FALSE, FALSE, 0, 4, 4, FALSE, FALSE),
               EdgeCall(FALSE, 5, 4, TRUE, FALSE, 0, 5, 4, TRUE, FALSE),
               EdgeCall(FALSE, 5, 4, FALSE, FALSE, -2000, 5, 4, FALSE, FALSE),
               EdgeCall(TRUE, 5, 4, FALSE, FALSE, -2000, 5, 4, FALSE, FALSE),
               EdgeCall(TRUE, 5, 4, FALSE, TRUE, 0, 5, 4, FALSE, TRUE),
               EdgeCall(TRUE, 5, 3, FALSE, FALSE, 0, 5, 3, FALSE, FALSE),
               EdgeCall(TRUE, 5, 3, FALSE, TRUE, 0, 5, 3, FALSE, TRUE),
               EdgeCall(TRUE, 5, 2, FALSE, FALSE, 0, 5, 2, FALSE, FALSE),
               EdgeCall(TRUE, 5, 2, FALSE, TRUE, 0, 5, 2, FALSE, TRUE),
               EdgeCall(TRUE, 5, 1, FALSE, FALSE, 0, 5, 1, FALSE, FALSE),
               EdgeCall(TRUE, 5, 1, FALSE, TRUE, 0, 5, 1, FALSE, TRUE),
               EdgeCall(TRUE, 5, 0, FALSE, FALSE, 0, 5, 0, FALSE, FALSE),
               EdgeCall(TRUE, 5, 0, FALSE, TRUE, 2000, 5, 0, FALSE, TRUE),
               EdgeCall(FALSE, 5, 0, FALSE, TRUE, -2000, 5, 0, FALSE, TRUE),
               EdgeCall(FALSE, 5, 0, TRUE, TRUE, 0, 5, 0, TRUE, TRUE),
               EdgeCall(FALSE, 4, 0, FALSE, TRUE, 0, 4, 0, FALSE, TRUE),
               EdgeCall(FALSE, 4, 0, TRUE, TRUE, -300, 4, 0, TRUE, TRUE)
           >>,
           <<
               EdgeCall(FALSE, 0, 0, FALSE, TRUE, IF top_shell THEN 0 ELSE 2000, 0, 0, FALSE, TRUE),
               EdgeCall(FALSE, 0, 0, TRUE, TRUE, IF top_shell THEN 3000 ELSE 0, 0, 0, TRUE, TRUE)
           >>
       >>

\* BuildCorners that leaves out the last corner pair of every group of the
\* bottom cover.
BuildCorners_short(a, top_shell, calls) ==
    LET web_kwargs == IF ~top_shell THEN bottom_cover_web_kwargs(a) ELSE default_web_kwargs
        Pair(c) ==
            << cover_edge_corner(a, c.side, c.column, c.row, c.left, c.top, top_shell,
                                 c.offset_along_edge, FALSE),
               web_corner(c.web.column, c.web.row, c.web.left, c.web.top, web_kwargs) >>
        Last(g) == IF top_shell THEN Len(calls[g]) ELSE Len(calls[g]) - 1
    IN [g \in 1..Len(calls) |-> [i \in 1..Last(g) |-> Pair(calls[g][i])]]

\* The corner pairs (edge post, web corner) built from the calls.
BuildCorners(a, top_shell, calls) ==
    LET web_kwargs == IF ~top_shell THEN bottom_cover_web_kwargs(a) ELSE default_web_kwargs
        Pair(c) ==
            << cover_edge_corner(a, c.side, c.column, c.row, c.left, c.top, top_shell,
                                 c.offset_along_edge, FALSE),
               web_corner(c.web.column, c.web.row, c.web.left, c.web.top, web_kwargs) >>
    IN [g \in 1..Len(calls) |-> [i \in 1..Len(calls[g]) |-> Pair(calls[g][i])]]

\* generate_cover_edge_corners(top_shell)
generate_cover_edge_corners(a, top_shell) ==
    BuildCorners(a, top_shell, EdgeCornerCalls(top_shell))

\* The hulls of finger_cover_edge for one group: one per pair of
\* consecutive corner pairs (itertools.pairwise).
EdgeHull(edges, i) == Hull(edges[i] \o edges[i + 1])

\* GroupHulls that closes the group into a loop: one more hull, from the
\* last corner pair back to the first.
GroupHulls_closed(edges) ==
    [i \in 1..Len(edges) |-> Hull(edges[i] \o edges[(i % Len(edges)) + 1])]

GroupHulls(edges) == [i \in 1..(Len(edges) - 1) |-> EdgeHull(edges, i)]

\* finger_cover_edge that returns the hulls without the magnet mounts.
finger_cover_edge_bare(a, top_shell) ==
    LET edge_groups == generate_cover_edge_corners(a, top_shell)
    IN [t |-> "finger_cover_edge",
        hulls |-> Flatten([g \in 1..Len(edge_groups) |-> GroupHulls(edge_groups[g])]),
        magnets |-> <<>>]

\* finger_cover_edge(top_shell), run to its end.
finger_cover_edge(a, top_shell) ==
    LET edge_groups == generate_cover_edge_corners(a, top_shell)
    IN [t |-> "finger_cover_edge",
        hulls |-> Flatten([g \in 1..Len(edge_groups) |-> GroupHulls(edge_groups[g])]),
        magnets |-> place_cover_magnets(a, cover_magnet_mount(a, top_shell))]

\* What a part method returns: the operands of its expression in order, the
\* colour applied (use_color), or the exception that left it.
Returned(tree, color) == [raised |-> "", tree |-> tree, color |-> color]
Raised(exception) == [raised |-> exception, tree |-> <<>>, color |-> None]

\* A part used as an operand of another part's expression.
Part(r) == [t |-> "part", tree |-> r.tree, color |-> r.color]

\* The function position -> shape of a callback, for place_all.
SocketAt(a, layout) ==
    [p \in Range(generate_positions(layout)) |-> switch_socket(a, PyInt(p[1]), PyInt(p[2]))]

CoverAt(a, layout) ==
    [p \in Range(generate_positions(layout)) |-> switch_bottom_cover(a, PyInt(p[1]), PyInt(p[2]))]

ShapeAt(layout, shape) == [p \in Range(generate_positions(layout)) |-> shape]

\* TrackpointTerms without the `and not self.left_side` of its condition.
TrackpointTerms_both(a) ==
    IF a.enable_trackpoint
    THEN << Term("+", "trackpoint_mount",
                 <<transform("trackpoint_mount", Ext("trackpoint_mount.trackpoint_mount"))>>),
            Term("-", "trackpoint_holes",
                 <<transform("trackpoint_mount", Ext("trackpoint_mount.trackpoint_holes"))>>) >>
    ELSE <<>>

\* TrackpointTerms without the `self.enable_trackpoint and` of its condition.
TrackpointTerms_unless_left(a) ==
    IF ~a.left_side
    THEN << Term("+", "trackpoint_mount",
                 <<transform("trackpoint_mount", Ext("trackpoint_mount.trackpoint_mount"))>>),
            Term("-", "trackpoint_holes",
                 <<transform("trackpoint_mount", Ext("trackpoint_mount.trackpoint_holes"))>>) >>
    ELSE <<>>

\* The optional TrackPoint operands of finger_part.
TrackpointTerms(a) ==
    IF a.enable_trackpoint /\ ~a.left_side
    THEN << Term("+", "trackpoint_mount",
                 <<transform("trackpoint_mount", Ext("trackpoint_mount.trackpoint_mount"))>>),
            Term("-", "trackpoint_holes",
                 <<transform("trackpoint_mount", Ext("trackpoint_mount.trackpoint_holes"))>>) >>
    ELSE <<>>

\* The three button holes of finger_part: the first at x = -5 on the
\* left-hand side and at x = 5 on the right-hand side.
ButtonHoles(a) ==
    << transform("board",
         [t |-> "union", shapes |-> <<
            Translate(<<IF a.left_side THEN -5000 ELSE 5000, -22000, 0>>, Ext("cube(4,6,40)")),
            Translate(<<-6000, -46000, 0>>, Ext("cube(4,6,40)")),
            Translate(<<6000, -46000, 0>>, Ext("cube(4,6,40)")) >>]) >>

\* finger_part()
finger_part(a, layout) ==
    LET web == web_all(layout, default_web_kwargs)
        kw == default_web_kwargs
        shape ==
          << Term("+", "sockets", place_all(layout, SocketAt(a, layout))),
             Term("+", "webs", web.tree),
             Term("+", "board_mount", <<transform("board", Ext("stm32_blackpill.render"))>>),
             Term("+", "board_back_hull",
                  <<Hull(<< transform("board", Ext("stm32_blackpill.back_mounting_posts")),
                            web_corner(3, 0, FALSE, TRUE, kw),
                            web_corner(3, 0, TRUE, TRUE, kw) >>)>>),
             Term("+", "board_front_hull",
                  <<Hull(<< transform("board", Ext("stm32_blackpill.front_mounting_posts")),
                            web_corner(1, 0, TRUE, TRUE, kw),
                            web_corner(1, 0, FALSE, TRUE, kw) >>)>>),
             Term("+", "board_frame", <<transform("board", Ext("posts_hull+cube-board_profile"))>>),
             Term("-", "button_holes", ButtonHoles(a)),
             Term("+", "connector_mount",
                  <<Hull(<< transform("connector_mount", Ext("connector_mount.frame")),
                            web_corner(0, 0, TRUE, FALSE, kw),
                            web_corner(0, 0, TRUE, TRUE, kw),
                            cover_edge_corner(a, TRUE, 0, 1, TRUE, TRUE, TRUE,
                                              a.bottom_cover_post_size, FALSE),
                            web_corner(0, 1, TRUE, TRUE, kw) >>)>>),
             Term("+", "cover_edge", <<finger_cover_edge(a, TRUE)>>),
             Term("-", "magnet_holes", place_cover_magnets(a, cover_magnet_hole(a, TRUE))),
             Term("-", "connector_hole",
                  <<transform("connector_mount", Ext("connector_mount.hole"))>>) >>
          \o TrackpointTerms(a)
          \o << Term("-", "pcb_clearance",
                     place_all(layout, ShapeAt(layout, Ext("single_key_board")))) >>
    IN IF web.raised # ""
       THEN Raised(web.raised)
       ELSE Returned(shape, IF a.use_color THEN Some("0.1,0.1,0.1") ELSE None)

\* finger_bottom_cover()
finger_bottom_cover(a, layout) ==
    LET web_kwargs == bottom_cover_web_kwargs(a)
        web == web_all(layout, web_kwargs)
        shape ==
          << Term("+", "slabs", place_all(layout, CoverAt(a, layout))),
             Term("+", "webs", web.tree),
             Term("+", "connector_cover",
                  <<Hull(<< Ext("connector_cylinder-key_place(0,0,cube)"),
                            web_corner(1, 0, TRUE, TRUE, web_kwargs),
                            web_corner(1, 0, TRUE, FALSE, web_kwargs) >>)>>),
             Term("+", "cover_edge", <<finger_cover_edge(a, FALSE)>>),
             Term("-", "magnet_holes", place_cover_magnets(a, cover_magnet_hole(a, FALSE))),
             Term("-", "connector_cutout",
                  <<Hull(<< transform("connector_mount", Ext("cylinder_outer")),
                            web_corner(1, 0, TRUE, TRUE, web_kwargs),
                            web_corner(1, 0, TRUE, FALSE, web_kwargs) >>)>>),
             Term("-", "board_cutout",
                  <<key_place(2, -1, Translate(<<3000, 0, 10000 - a.bottom_cover_offset>>,
                                               Ext("cube(60,37,30)")))>>) >>
    IN IF web.raised # "" THEN Raised(web.raised) ELSE Returned(shape, None)

\* finger_bottom_cover_nuts()
finger_bottom_cover_nuts(a) ==
    LET web_kwargs == bottom_cover_web_kwargs(a)
        Nut(name, c1, r1, l1, t1, c2, r2, l2, t2) ==
          << Term("+", name, <<transform(name, a.tenting_nut)>>),
             Term("+", name,
                  <<Hull(<< transform(name, Ext("cube")),
                            web_corner(c1, r1, l1, t1, web_kwargs),
                            web_corner(c2, r2, l2, t2, web_kwargs) >>)>>) >>
    IN Returned(Nut("finger_nut1", 5, 0, FALSE, TRUE, 5, 0, TRUE, TRUE)
                \o Nut("finger_nut2", 5, 4, FALSE, TRUE, 5, 4, FALSE, FALSE)
                \o Nut("finger_nut3", 0, 1, TRUE, TRUE, 0, 1, TRUE, FALSE), None)

\* finger_bottom_cover_feet()
finger_bottom_cover_feet(a) ==
    LET Foot(column, row, x, y) ==
          Term("+", "foot",
               <<Hull(<< key_place(column, row, Ext("bottom_cover_attachment_spot")),
                         Translate(<<x, y, 50>>, Ext("cube(10,10,0.1)")) >>)>>)
    IN Returned(<< Foot(0, 1, -60000, 45000), Foot(0, 3, -60000, -45000),
                   Foot(5, 0, 70000, 45000), Foot(5, 4, 70000, -65000) >>, None)

\* The four hulls of a tripod mount between the mount cylinder at
\* (column, row), in tenths, and the web corners around the key
\* (column, rnd), rnd the row the code rounds to.
TripodMount(a, place, column, rnd) ==
    LET web_kwargs == bottom_cover_web_kwargs(a)
        Quarter(side, c1, r1, l1, t1, c2, r2, l2, t2) ==
          Hull(<< [t |-> "key_place_at", place |-> place, shape |-> Ext(side)],
                  web_corner(c1, r1, l1, t1, web_kwargs),
                  web_corner(c2, r2, l2, t2, web_kwargs) >>)
    IN << Quarter("left", column - 1, rnd - 1, TRUE, FALSE, column - 1, rnd, TRUE, TRUE),
          Quarter("right", column + 1, rnd - 1, FALSE, FALSE, column + 1, rnd, FALSE, TRUE),
          Quarter("forward", column, rnd - 1, TRUE, TRUE, column, rnd - 1, FALSE, TRUE),
          Quarter("back", column, rnd + 1, TRUE, FALSE, column, rnd + 1, FALSE, FALSE) >>

\* finger_bottom_cover_with_tripod_mount(): mount_column = 2,
\* mount_row = 1.8, round(mount_row) = 2.
finger_bottom_cover_with_tripod_mount(a, layout) ==
    LET cover == finger_bottom_cover(a, layout)
        place == <<20, 18>>
    IN IF cover.raised # "" THEN Raised(cover.raised)
       ELSE Returned(
              << Term("+", "finger_bottom_cover", <<Part(cover)>>),
                 Term("+", "tripod_mount", TripodMount(a, place, 2, 2)),
                 Term("-", "tripod_mount_holes",
                      <<[t |-> "key_place_at", place |-> place, shape |-> Ext("tripod_mount_holes")]>>),
                 Term("+", "prongs",
                      <<[t |-> "key_place_at", place |-> place, shape |-> Ext("prongs")]>>) >>,
              None)

\* finger_bottom_cover_with_t_nut(): the mount at key (2, 3), web corners of
\* rows 2, 3 and 4.
finger_bottom_cover_with_t_nut(a, layout) ==
    LET cover == finger_bottom_cover(a, layout)
        place == <<20, 30>>
    IN IF cover.raised # "" THEN Raised(cover.raised)
       ELSE Returned(
              << Term("+", "finger_bottom_cover", <<Part(cover)>>),
                 Term("+", "tripod_mount", TripodMount(a, place, 2, 3)),
                 Term("-", "tripod_mount_holes",
                      <<[t |-> "key_place_at", place |-> place, shape |-> Ext("tripod_mount_holes")]>>) >>,
              None)

\* A web corner of the thumb layout (layouts/thumb_well.py is not among the
\* sources).
thumb_web_corner(column, row, left, top) ==
    [t |-> "thumb_web_corner", column |-> column, row |-> row, left |-> left, top |-> top]

\* The tenting nut of the thumb part and its two hulls.
ThumbNutMount(a) ==
    << transform("thumb_nut1", a.tenting_nut),
       Hull(<< transform("thumb_nut1", Ext("cube")),
               thumb_web_corner(0, 1, TRUE, FALSE),
               thumb_web_corner(0, 1, TRUE, TRUE) >>),
       Hull(<< transform("thumb_nut1", Ext("cube")),
               thumb_web_corner(0, 1, FALSE, FALSE),
               thumb_web_corner(0, 1, TRUE, FALSE) >>) >>

\* ThumbNuts that asks for enable_nuts only.
ThumbNuts_enable_only(a) ==
    IF a.enable_nuts THEN ThumbNutMount(a) ELSE <<Ext("nothing")>>

\* The optional operand of thumb_part: the nut mount, or `nothing`.
ThumbNuts(a) ==
    IF a.enable_nuts /\ a.bottom_thumb_nuts THEN ThumbNutMount(a) ELSE <<Ext("nothing")>>

\* thumb_part()
thumb_part(a) ==
    LET nuts == ThumbNuts(a)
    IN Returned(
         << Term("+", "thumb_sockets",
                 <<[t |-> "thumb_place_all", shape |-> "switch_socket", mirrored |-> a.left_side]>>),
            Term("+", "thumb_webs", <<Ext("thumb_layout.web_all")>>),
            Term("+", "thumb_nuts", nuts),
            Term("-", "thumb_pcb_clearance",
                 <<[t |-> "thumb_place_all", shape |-> "single_key_board", mirrored |-> FALSE]>>) >>,
         IF a.use_color THEN Some("0.1,0.1,0.1") ELSE None)

\* connector()
connector(a) ==
    Returned(
      << Term("+", "finger_nut3", <<transform("finger_nut3", a.tenting_nut_unthreaded)>>),
         Term("+", "thumb_nut3", <<transform("thumb_nut3", a.tenting_nut_unthreaded)>>),
         Term("+", "bridge",
              <<Hull(<< transform("finger_nut3", Ext("cube")),
                        transform("thumb_nut3", Ext("cube")) >>)>>) >>,
      None)

\* single_piece without its last operand: the magnet holes are those of
\* finger_part alone.
single_piece_holes_once(a, layout) ==
    LET finger == finger_part(a, layout)
        kw == default_web_kwargs
    IN IF finger.raised # "" THEN Raised(finger.raised)
       ELSE Returned(
              << Term("+", "finger_part", <<Part(finger)>>),
                 Term("+", "thumb_bridge",
                      <<Hull(<< web_corner(0, 2, TRUE, FALSE, kw),
                                web_corner(0, 3, TRUE, TRUE, kw),
                                thumb_web_corner(2, -1, TRUE, TRUE),
                                thumb_web_corner(2, -1, TRUE, FALSE),
                                thumb_web_corner(1, -1, FALSE, FALSE),
                                thumb_web_corner(1, -1, FALSE, TRUE) >>)>>),
                 Term("+", "thumb_bridge",
                      <<Hull(<< web_corner(0, 3, TRUE, TRUE, kw),
                                key_place(0, 3, Ext("web_post")),
                                thumb_web_corner(2, 0, TRUE, TRUE),
                                thumb_web_corner(2, -1, TRUE, FALSE),
                                thumb_web_corner(1, -1, FALSE, FALSE),
                                thumb_web_corner(1, 0, FALSE, TRUE) >>)>>),
                 Term("+", "thumb_bridge",
                      <<Hull(<< web_corner(0, 2, TRUE, FALSE, kw),
                                cover_edge_corner(a, TRUE, 0, 2, TRUE, TRUE, TRUE, 0, TRUE),
                                thumb_web_corner(2, -1, TRUE, TRUE),
                                thumb_web_corner(1, -1, FALSE, TRUE) >>)>>),
                 Term("+", "thumb_part", <<Part(thumb_part(a))>>) >>,
              None)

\* single_piece()
single_piece(a, layout) ==
    LET finger == finger_part(a, layout)
        kw == default_web_kwargs
    IN IF finger.raised # "" THEN Raised(finger.raised)
       ELSE Returned(
              << Term("+", "finger_part", <<Part(finger)>>),
                 Term("+", "thumb_bridge",
                      <<Hull(<< web_corner(0, 2, TRUE, FALSE, kw),
                                web_corner(0, 3, TRUE, TRUE, kw),
                                thumb_web_corner(2, -1, TRUE, TRUE),
                                thumb_web_corner(2, -1, TRUE, FALSE),
                                thumb_web_corner(1, -1, FALSE, FALSE),
                                thumb_web_corner(1, -1, FALSE, TRUE) >>)>>),
                 Term("+", "thumb_bridge",
                      <<Hull(<< web_corner(0, 3, TRUE, TRUE, kw),
                                key_place(0, 3, Ext("web_post")),
                                thumb_web_corner(2, 0, TRUE, TRUE),
                                thumb_web_corner(2, -1, TRUE, FALSE),
                                thumb_web_corner(1, -1, FALSE, FALSE),
                                thumb_web_corner(1, 0, FALSE, TRUE) >>)>>),
                 Term("+", "thumb_bridge",
                      <<Hull(<< web_corner(0, 2, TRUE, FALSE, kw),
                                cover_edge_corner(a, TRUE, 0, 2, TRUE, TRUE, TRUE, 0, TRUE),
                                thumb_web_corner(2, -1, TRUE, TRUE),
                                thumb_web_corner(1, -1, FALSE, TRUE) >>)>>),
                 Term("+", "thumb_part", <<Part(thumb_part(a))>>),
                 Term("-", "magnet_holes", place_cover_magnets(a, cover_magnet_hole(a, FALSE))) >>,
              None)

\* ------------------------------------------------------------------------
\* The program as a state machine: an assembly is constructed, its flags
\* are assigned, its methods are called and what they return is handed to
\* the renderer.  Spec calls every method as one step; SpecLayout iterates
\* the two generators (web_all, finger_cover_edge) element by element.
\* ------------------------------------------------------------------------

FlagNames == {"left_side", "enable_trackpoint", "enable_nuts", "bottom_thumb_nuts"}

\* Methods that take no argument and build a part in one expression.
PartMethods ==
    {"finger_part", "finger_bottom_cover", "finger_bottom_cover_nuts",
     "finger_bottom_cover_feet", "finger_bottom_cover_with_tripod_mount",
     "finger_bottom_cover_with_t_nut", "thumb_part", "connector", "single_piece"}

NoFrame ==
    [kw |-> default_web_kwargs, top_shell |-> TRUE, gen |-> 0, idx |-> 0,
     out |-> <<>>, visited |-> 0]

NoResult ==
    [method |-> "", arg |-> <<>>, raised |-> "", tree |-> <<>>, color |-> None, steps |-> 0]

Result(method, arg, r, steps) ==
    [method |-> method, arg |-> arg, raised |-> r.raised, tree |-> r.tree,
     color |-> r.color, steps |-> steps]

\* KeyboardAssembly(columns, rows, use_color=..., socket_shape=...)
Init ==
    /\ \E columns \in 1..MaxColumns, rows \in 1..MaxRows :
          finger_layout = FingerWellLayout(columns, rows, FALSE)
    /\ \E use_color \in BOOLEAN, socket_shape \in {"None", "custom"} :
          self = KeyboardAssembly(use_color, socket_shape)
    /\ pc = "idle"
    /\ frame = NoFrame
    /\ result = NoResult

\* assembly.<flag> = value, by the script that owns the assembly.
SetFlag ==
    /\ pc = "idle"
    /\ \E flag \in FlagNames, value \in BOOLEAN :
          /\ self[flag] # value
          /\ self' = [self EXCEPT ![flag] = value]
    /\ UNCHANGED <<finger_layout, pc, frame, result>>

\* The returned shape is handed to the renderer (spec section 6) and the
\* script goes on.
HandOver ==
    /\ pc = "returned"
    /\ pc' = "idle"
    /\ result' = NoResult
    /\ UNCHANGED <<finger_layout, self, frame>>

\* The value a part method returns for the current configuration.
CallPart(method) ==
    CASE method = "finger_part" -> finger_part(self, finger_layout)
      [] method = "finger_bottom_cover" -> finger_bottom_cover(self, finger_layout)
      [] method = "finger_bottom_cover_nuts" -> finger_bottom_cover_nuts(self)
      [] method = "finger_bottom_cover_feet" -> finger_bottom_cover_feet(self)
      [] method = "finger_bottom_cover_with_tripod_mount" ->
            finger_bottom_cover_with_tripod_mount(self, finger_layout)
      [] method = "finger_bottom_cover_with_t_nut" ->
            finger_bottom_cover_with_t_nut(self, finger_layout)
      [] method = "thumb_part" -> thumb_part(self)
      [] method = "connector" -> connector(self)
      [] method = "single_piece" -> single_piece(self, finger_layout)

\* PartCall of a part method that switches to the left-hand side itself.
PartCall_sets_left_side ==
    /\ pc = "idle"
    /\ \E method \in PartMethods :
          result' = Result(method, <<>>, CallPart(method), 0)
    /\ pc' = "returned"
    /\ self' = [self EXCEPT !.left_side = TRUE]
    /\ UNCHANGED <<finger_layout, frame>>

\* A call of one of the part methods.
PartCall ==
    /\ pc = "idle"
    /\ \E method \in PartMethods :
          result' = Result(method, <<>>, CallPart(method), 0)
    /\ pc' = "returned"
    /\ UNCHANGED <<finger_layout, self, frame>>

\* switch_socket(column, row) / switch_bottom_cover(column, row) /
\* bottom_cover_size_adjust(column, row) /
\* bottom_cover_position_adjust(column, row) at a position of the grid.
SwitchCall ==
    /\ pc = "idle"
    /\ \E column \in 0..(finger_layout.columns - 1), row \in 0..(finger_layout.rows - 1),
          method \in {"switch_socket", "switch_bottom_cover",
                      "bottom_cover_size_adjust", "bottom_cover_position_adjust"} :
          result' = Result(method, <<column, row>>,
                           Returned(<<CASE method = "switch_socket" ->
                                             switch_socket(self, PyInt(column), PyInt(row))
                                        [] method = "switch_bottom_cover" ->
                                             switch_bottom_cover(self, PyInt(column), PyInt(row))
                                        [] method = "bottom_cover_size_adjust" ->
                                             bottom_cover_size_adjust(PyInt(column), PyInt(row))
                                        [] method = "bottom_cover_position_adjust" ->
                                             bottom_cover_position_adjust(PyInt(column), PyInt(row))>>,
                                    None), 0)
    /\ pc' = "returned"
    /\ UNCHANGED <<finger_layout, self, frame>>

\* The value of a method that takes top_shell.
CallShell(method, top_shell) ==
    CASE method = "cover_magnet_mount" -> <<cover_magnet_mount(self, top_shell)>>
      [] method = "cover_magnet_hole" -> <<cover_magnet_hole(self, top_shell)>>
      [] method = "place_cover_magnets(cover_magnet_mount)" ->
            place_cover_magnets(self, cover_magnet_mount(self, top_shell))
      [] method = "place_cover_magnets(cover_magnet_hole)" ->
            place_cover_magnets(self, cover_magnet_hole(self, top_shell))
      [] method = "generate_cover_edge_corners" ->
            generate_cover_edge_corners(self, top_shell)
      [] method = "finger_cover_edge" -> <<finger_cover_edge(self, top_shell)>>

ShellMethods ==
    {"cover_magnet_mount", "cover_magnet_hole", "place_cover_magnets(cover_magnet_mount)",
     "place_cover_magnets(cover_magnet_hole)", "generate_cover_edge_corners",
     "finger_cover_edge"}

\* cover_magnet_mount(top_shell), cover_magnet_hole(top_shell),
\* place_cover_magnets(shape) of either, generate_cover_edge_corners(top_shell)
\* and finger_cover_edge(top_shell).
ShellCall ==
    /\ pc = "idle"
    /\ \E top_shell \in BOOLEAN, method \in ShellMethods :
          result' = Result(method, <<top_shell>>,
                           Returned(CallShell(method, top_shell), None), 0)
    /\ pc' = "returned"
    /\ UNCHANGED <<finger_layout, self, frame>>

\* finger_layout.web_all(**web_kwargs) is entered: nothing is yielded yet.
WebAllCall ==
    /\ pc = "idle"
    /\ \E kw \in {default_web_kwargs, bottom_cover_web_kwargs(self)} :
          frame' = [NoFrame EXCEPT !.kw = kw, !.gen = 1, !.idx = 1]
    /\ pc' = "web_all"
    /\ UNCHANGED <<finger_layout, self, result>>

\* WebAllNext that advances only past the positions it keeps: it never gets
\* past a position its filter rejects.
WebAllNext_stuck ==
    /\ pc = "web_all"
    /\ frame.gen <= Len(WebAllKinds)
    /\ LET ps == generate_positions(finger_layout)
       IN IF frame.idx <= Len(ps)
          THEN LET p == ps[frame.idx]
               IN IF WebAllFilter(frame.gen, p[1], p[2])
                  THEN frame' = [frame EXCEPT
                          !.idx = @ + 1,
                          !.visited = @ + 1,
                          !.out = Append(@, web_element(WebAllKinds[frame.gen], p[1], p[2], frame.kw))]
                  ELSE frame' = frame
          ELSE frame' = [frame EXCEPT !.gen = @ + 1, !.idx = 1]
    /\ UNCHANGED <<finger_layout, self, pc, result>>

\* reduce() pulls the next position out of the running generator: the
\* position is filtered and, if kept, its web element is added; an
\* exhausted generator hands over to the next one of the chain.
WebAllNext ==
    /\ pc = "web_all"
    /\ frame.gen <= Len(WebAllKinds)
    /\ LET ps == generate_positions(finger_layout)
       IN IF frame.idx <= Len(ps)
          THEN LET p == ps[frame.idx]
               IN frame' = [frame EXCEPT
                      !.idx = @ + 1,
                      !.visited = @ + 1,
                      !.out = IF WebAllFilter(frame.gen, p[1], p[2])
                              THEN Append(@, web_element(WebAllKinds[frame.gen], p[1], p[2], frame.kw))
                              ELSE @]
          ELSE frame' = [frame EXCEPT !.gen = @ + 1, !.idx = 1]
    /\ UNCHANGED <<finger_layout, self, pc, result>>

\* The chain is exhausted: reduce() returns the sum, or raises.
WebAllReturn ==
    /\ pc = "web_all"
    /\ frame.gen > Len(WebAllKinds)
    /\ result' = Result("web_all", <<frame.kw>>,
                        [raised |-> ReduceAdd(frame.out).raised,
                         tree |-> ReduceAdd(frame.out).tree,
                         color |-> None],
                        frame.visited)
    /\ pc' = "returned"
    /\ frame' = NoFrame
    /\ UNCHANGED <<finger_layout, self>>

\* finger_cover_edge(top_shell) is entered.
CoverEdgeCall ==
    /\ pc = "idle"
    /\ \E top_shell \in BOOLEAN :
          frame' = [NoFrame EXCEPT !.top_shell = top_shell, !.gen = 1, !.idx = 1]
    /\ pc' = "finger_cover_edge"
    /\ UNCHANGED <<finger_layout, self, result>>

\* union() pulls the next hull: that of the next pair of the running group,
\* or of the first pair of the next group.  frame.out holds, for each hull
\* pulled, the group and the index of its first corner pair.
CoverEdgeNext ==
    /\ pc = "finger_cover_edge"
    /\ LET calls == EdgeCornerCalls(frame.top_shell)
       IN /\ frame.gen <= Len(calls)
          /\ IF frame.idx < Len(calls[frame.gen])
             THEN frame' = [frame EXCEPT
                      !.idx = @ + 1,
                      !.visited = @ + 1,
                      !.out = Append(@, <<frame.gen, frame.idx>>)]
             ELSE frame' = [frame EXCEPT !.gen = @ + 1, !.idx = 1]
    /\ UNCHANGED <<finger_layout, self, pc, result>>

\* Every group is exhausted: the hulls are united and the magnet mounts added.
CoverEdgeReturn ==
    /\ pc = "finger_cover_edge"
    /\ frame.gen > Len(EdgeCornerCalls(frame.top_shell))
    /\ LET edge_groups == generate_cover_edge_corners(self, frame.top_shell)
       IN result' = Result("finger_cover_edge", <<frame.top_shell>>,
                        Returned(<<[t |-> "finger_cover_edge",
                                    hulls |-> [k \in 1..Len(frame.out) |->
                                                 EdgeHull(edge_groups[frame.out[k][1]],
                                                          frame.out[k][2])],
                                    magnets |-> place_cover_magnets(self,
                                                   cover_magnet_mount(self, frame.top_shell))]>>,
                                 None),
                        frame.visited)
    /\ pc' = "returned"
    /\ frame' = NoFrame
    /\ UNCHANGED <<finger_layout, self>>

Next ==
    \/ SetFlag
    \/ HandOver
    \/ PartCall
    \/ SwitchCall
    \/ ShellCall

Spec == Init /\ [][Next]_vars

\* The layout's generators, iterated: the assembly is constructed with its
\* default arguments but for the grid.
InitLayout ==
    /\ \E columns \in 1..MaxColumns, rows \in 1..MaxRows :
          finger_layout = FingerWellLayout(columns, rows, FALSE)
    /\ self = KeyboardAssembly(FALSE, "None")
    /\ pc = "idle"
    /\ frame = NoFrame
    /\ result = NoResult

NextLayout ==
    \/ HandOver
    \/ WebAllCall
    \/ WebAllNext
    \/ WebAllReturn
    \/ CoverEdgeCall
    \/ CoverEdgeNext
    \/ CoverEdgeReturn

SpecLayout == InitLayout /\ [][NextLayout]_vars

\* The interpreter runs a started call to its end.
SpecLayoutFair == SpecLayout /\ WF_vars(NextLayout)

\* The numbers passed as columns and as rows: the ints from -1 on and the
\* floats in halves (0.0, 0.5, 1.0, ...).
ColumnNumbers ==
    {PyInt(c) : c \in -1..MaxColumns} \cup {PyFloat(k * 500) : k \in 0..(2 * MaxColumns)}

RowNumbers ==
    {PyInt(r) : r \in -1..MaxRows} \cup {PyFloat(k * 500) : k \in 0..(2 * MaxRows)}

\* The values of offset_along_edge passed to cover_edge_corner, in
\* micrometres: those of the edge table and one beyond the 10 mm of the post.
EdgeOffsets == {-12000, -7000, 0, 200, 3000}

\* An assembly of the default grid; use_1_5u_keys is the constructor's
\* default or is passed.
InitPlacement ==
    /\ \E use_1_5u_keys \in BOOLEAN :
          finger_layout = KeyboardAssemblyLayout(KeyboardAssemblyDefaults.columns,
                                                 KeyboardAssemblyDefaults.rows,
                                                 use_1_5u_keys)
    /\ self = KeyboardAssembly(FALSE, "None")
    /\ pc = "idle"
    /\ frame = NoFrame
    /\ result = NoResult

\* finger_layout.column_adjust(column)
ColumnAdjustCall ==
    /\ pc = "idle"
    /\ \E column \in ColumnNumbers :
          result' = Result("column_adjust", <<column>>,
                           Returned(<<column_adjust(finger_layout, column)>>, None), 0)
    /\ pc' = "returned"
    /\ UNCHANGED <<finger_layout, self, frame>>

\* finger_layout.placement_adjust(column, row, shape)
PlacementAdjustCall ==
    /\ pc = "idle"
    /\ \E column \in ColumnNumbers, row \in RowNumbers :
          result' = Result("placement_adjust", <<column, row>>,
                           Returned(<<placement_adjust(column, row, Ext("shape"))>>, None), 0)
    /\ pc' = "returned"
    /\ UNCHANGED <<finger_layout, self, frame>>

\* switch_socket(column, row) / switch_bottom_cover(column, row) /
\* bottom_cover_size_adjust(column, row) /
\* bottom_cover_position_adjust(column, row) at any position, the
\* fractional ones included.
SwitchAnyCall ==
    /\ pc = "idle"
    /\ \E column \in ColumnNumbers, row \in RowNumbers,
          method \in {"switch_socket", "switch_bottom_cover",
                      "bottom_cover_size_adjust", "bottom_cover_position_adjust"} :
          result' = Result(method, <<column, row>>,
                           Returned(<<CASE method = "switch_socket" ->
                                             switch_socket(self, column, row)
                                        [] method = "switch_bottom_cover" ->
                                             switch_bottom_cover(self, column, row)
                                        [] method = "bottom_cover_size_adjust" ->
                                             bottom_cover_size_adjust(column, row)
                                        [] method = "bottom_cover_position_adjust" ->
                                             bottom_cover_position_adjust(column, row)>>,
                                    None), 0)
    /\ pc' = "returned"
    /\ UNCHANGED <<finger_layout, self, frame>>

\* cover_edge_corner(side, column, row, left, top, top_shell,
\* offset_along_edge, outer)
EdgeCornerCall ==
    /\ pc = "idle"
    /\ \E side \in BOOLEAN, left \in BOOLEAN, top \in BOOLEAN, top_shell \in BOOLEAN,
          outer \in BOOLEAN, offset_along_edge \in EdgeOffsets,
          position \in {<<0, 1>>, <<5, 4>>} :
          result' = Result("cover_edge_corner",
                           <<side, position[1], position[2], left, top, top_shell,
                             offset_along_edge, outer>>,
                           Returned(<<cover_edge_corner(self, side, position[1], position[2],
                                                        left, top, top_shell,
                                                        offset_along_edge, outer)>>,
                                    None), 0)
    /\ pc' = "returned"
    /\ UNCHANGED <<finger_layout, self, frame>>

NextPlacement ==
    \/ SetFlag
    \/ HandOver
    \/ ColumnAdjustCall
    \/ PlacementAdjustCall
    \/ SwitchAnyCall
    \/ EdgeCornerCall

\* The placement functions and the per-key shapes, called with any number.
SpecPlacement == InitPlacement /\ [][NextPlacement]_vars

\* ------------------------------------------------------------------------
\* Properties
\* ------------------------------------------------------------------------

\* The web elements web_all has produced: those yielded so far while it
\* runs, those it returned once it has.
WebsProduced ==
    IF pc = "web_all" THEN Range(frame.out)
    ELSE IF result.method = "web_all" THEN Range(result.tree)
    ELSE {}

\* The positions of the grid that are not skipped.
ValidPositions == Range(generate_positions(finger_layout))

\* C1: for every grid size, no position web_all's elements are at or connect
\* to, and no position generate_positions yields, is in positions_to_skip.
C1_NoSkippedPosition ==
    /\ ValidPositions \cap finger_layout.positions_to_skip = {}
    /\ \A w \in WebsProduced : web_connects(w) \cap finger_layout.positions_to_skip = {}

\* C2: on the default 6x5 grid web_all returns, for every valid position,
\* web_left_of when its left neighbour is valid, web_above when its upper
\* neighbour is valid, and web_top_left_of when the left, upper and
\* upper-left neighbours are all valid.
C2_AdjacentBridged ==
    (pc = "returned" /\ result.method = "web_all"
       /\ finger_layout.columns = 6 /\ finger_layout.rows = 5) =>
      \A p \in ValidPositions :
        LET c == p[1]
            r == p[2]
            kw == result.arg[1]
            left == <<c - 1, r>> \in ValidPositions
            above == <<c, r - 1>> \in ValidPositions
            diag == <<c - 1, r - 1>> \in ValidPositions
        IN /\ left => web_element("web_left_of", c, r, kw) \in Range(result.tree)
           /\ above => web_element("web_above", c, r, kw) \in Range(result.tree)
           /\ (left /\ above /\ diag) =>
                 web_element("web_top_left_of", c, r, kw) \in Range(result.tree)

\* web_all has returned on the 6x5 grid and bridged (1, 3) to (0, 3), the
\* pair next to the skipped key.
C2_Witness ==
    /\ pc = "returned" /\ result.method = "web_all"
    /\ finger_layout.columns = 6 /\ finger_layout.rows = 5
    /\ web_element("web_left_of", 1, 3, default_web_kwargs) \in Range(result.tree)
    /\ web_element("web_top_left_of", 5, 4, default_web_kwargs) \in Range(result.tree)

\* C6: a started web_all or finger_cover_edge always returns; web_all has by
\* then visited every valid position exactly once per generator, and
\* finger_cover_edge has built one hull per pair of consecutive corner
\* pairs of each group.
C6_Terminates ==
    /\ (pc \in {"web_all", "finger_cover_edge"}) ~> (pc = "returned")
    /\ [](pc = "web_all" =>
            /\ frame.gen \in 1..(Len(WebAllKinds) + 1)
            /\ frame.idx \in 1..(Cardinality(ValidPositions) + 1)
            /\ frame.visited =
                 IF frame.gen > Len(WebAllKinds)
                 THEN Len(WebAllKinds) * Cardinality(ValidPositions)
                 ELSE (frame.gen - 1) * Cardinality(ValidPositions) + frame.idx - 1)
    /\ []((pc = "returned" /\ result.method = "web_all") =>
            result.steps = Len(WebAllKinds) * Cardinality(ValidPositions))
    /\ []((pc = "returned" /\ result.method = "finger_cover_edge") =>
            LET groups == generate_cover_edge_corners(self, result.arg[1])
                Pairs[g \in 0..Len(groups)] ==
                    IF g = 0 THEN 0 ELSE Pairs[g - 1] + Len(groups[g]) - 1
            IN /\ result.steps = Pairs[Len(groups)]
               /\ Len(result.tree[1].hulls) = Pairs[Len(groups)])

\* web_all is in its last generator on the largest grid, past the skipped
\* position.
C6_Witness ==
    /\ pc = "web_all"
    /\ frame.gen = 3
    /\ frame.idx > 5
    /\ finger_layout.columns = 6 /\ finger_layout.rows = 5

\* C7: for every grid size web_all returns a shape tree and does not raise.
C7_WebAllNeverRaises ==
    (pc = "returned" /\ result.method = "web_all") => result.raised = ""

\* The assembly with the same parameters and flags, for the right hand.
RightHand == [self EXCEPT !.left_side = FALSE]

\* What the method that has returned returns for the right hand.
RightResult ==
    IF result.method = "finger_part" THEN finger_part(RightHand, finger_layout)
    ELSE single_piece(RightHand, finger_layout)

MirrorX(shape) == Mirror(<<1, 0, 0>>, shape)

\* The left-hand finger part's operands, from the right-hand ones: the
\* TrackPoint operands are left out, every socket is mirrored before it is
\* placed, the first button hole is at x = -5 instead of 5, every other
\* operand is the same shape, not mirrored.
LeftTerm(term) ==
    CASE term.part = "sockets" ->
           [op |-> term.op, part |-> term.part,
            shapes |-> [i \in DOMAIN term.shapes |->
                          key_place(term.shapes[i].column, term.shapes[i].row,
                                    MirrorX(term.shapes[i].shape))]]
      [] term.part = "button_holes" ->
           [term EXCEPT !.shapes[1].shape.shapes[1].v[1] = -5000]
      [] OTHER -> term

LeftFingerTree(tree) ==
    LET NoTrackpoint(term) == term.part \notin {"trackpoint_mount", "trackpoint_holes"}
        kept == SelectSeq(tree, NoTrackpoint)
    IN [i \in DOMAIN kept |-> LeftTerm(kept[i])]

\* The left-hand single piece, from the right-hand one: its finger part as
\* above, the thumb sockets mirrored, the bridges and the magnet holes the
\* same.
LeftSingleTree(tree) ==
    [tree EXCEPT ![1].shapes[1].tree = LeftFingerTree(@),
                 ![5].shapes[1].tree[1].shapes[1].mirrored = TRUE]

\* C3 (as amended): with the same parameters and flags, the left-hand
\* finger_part (and single_piece) is the right-hand one with every socket
\* mirrored about X before it is placed, the first button hole at x = -5
\* instead of 5, and the TrackPoint mount and holes left out; all other
\* operands, and the colour, are the same and are not mirrored.
C3_LeftHandFromRight ==
    (pc = "returned" /\ result.method \in {"finger_part", "single_piece"}
       /\ result.raised = "" /\ self.left_side) =>
      /\ RightResult.raised = ""
      /\ result.color = RightResult.color
      /\ result.tree = IF result.method = "finger_part"
                       THEN LeftFingerTree(RightResult.tree)
                       ELSE LeftSingleTree(RightResult.tree)

\* A left-hand finger_part has returned while the TrackPoint is enabled.
C3_Witness ==
    /\ pc = "returned" /\ result.method = "finger_part" /\ result.raised = ""
    /\ self.left_side /\ self.enable_trackpoint
    /\ finger_layout.columns = 6 /\ finger_layout.rows = 5

\* C3 (as stated): the left-hand tree has the components of the right-hand
\* one, in the same order, each the mirror about X of the right-hand one.
C3_ExactMirror ==
    (pc = "returned" /\ result.method \in {"finger_part", "single_piece"}
       /\ result.raised = "" /\ self.left_side) =>
      LET right == RightResult.tree
      IN /\ [i \in DOMAIN result.tree |-> result.tree[i].part]
              = [i \in DOMAIN right |-> right[i].part]
         /\ \A i \in DOMAIN result.tree :
              result.tree[i].shapes
                = [k \in DOMAIN right[i].shapes |-> MirrorX(right[i].shapes[k])]

\* C5: a call of a part-generation method leaves the assembly's attributes
\* (flags, use_color, socket_shape, offsets and sizes, stored nut shapes)
\* and the layout's (positions_to_skip, placement_transform) as they were.
C5_ConfigurationUnchanged ==
    [][(pc = "idle" /\ pc' = "returned") =>
          (self' = self /\ finger_layout' = finger_layout)]_vars

\* single_piece has returned on an assembly whose flags are not the
\* constructor's.
C5_Witness ==
    /\ pc = "returned" /\ result.method = "single_piece"
    /\ self.left_side /\ self.enable_nuts /\ ~self.enable_trackpoint

\* The corner pairs of the top shell and of the bottom cover, when
\* generate_cover_edge_corners has returned those of either.
TopCorners ==
    IF result.arg[1] THEN result.tree ELSE generate_cover_edge_corners(self, TRUE)

BottomCorners ==
    IF result.arg[1] THEN generate_cover_edge_corners(self, FALSE) ELSE result.tree

\* The two profiles have the same groups and pairs, and at every index edge
\* corners of the same side, column, row, left and top and web corners of
\* the same column, row, left and top.
SameCornersButOffsets ==
    /\ Len(TopCorners) = Len(BottomCorners)
    /\ \A g \in DOMAIN TopCorners : Len(TopCorners[g]) = Len(BottomCorners[g])
    /\ \A g \in DOMAIN TopCorners : \A i \in DOMAIN TopCorners[g] :
          LET te == TopCorners[g][i][1]
              be == BottomCorners[g][i][1]
              tw == TopCorners[g][i][2]
              bw == BottomCorners[g][i][2]
          IN /\ <<te.side, te.column, te.row, te.left, te.top>>
                  = <<be.side, be.column, be.row, be.left, be.top>>
             /\ <<tw.column, tw.row, tw.left, tw.top>>
                  = <<bw.column, bw.row, bw.left, bw.top>>

\* C8 (as amended): the two edge profiles have the same groups and corner
\* pairs, built with the same side, column, row, left, top and the same web
\* corners; offset_along_edge is the same at every index of the first two
\* groups, and in the last group it is 0 and 3 on the top shell, 2 and 0 on
\* the bottom cover.
C8_EdgeProfilesMatchButLastOffsets ==
    (pc = "returned" /\ result.method = "generate_cover_edge_corners") =>
      /\ SameCornersButOffsets
      /\ Len(TopCorners) = 3
      /\ \A g \in 1..2 : \A i \in DOMAIN TopCorners[g] :
            TopCorners[g][i][1].offset_along_edge
              = BottomCorners[g][i][1].offset_along_edge
      /\ [i \in DOMAIN TopCorners[3] |-> TopCorners[3][i][1].offset_along_edge]
           = <<0, 3000>>
      /\ [i \in DOMAIN BottomCorners[3] |-> BottomCorners[3][i][1].offset_along_edge]
           = <<2000, 0>>

\* generate_cover_edge_corners(top_shell=False) has returned its 6, 24 and 2
\* corner pairs.
C8_Witness ==
    /\ pc = "returned" /\ result.method = "generate_cover_edge_corners"
    /\ result.arg = <<FALSE>>
    /\ [g \in DOMAIN result.tree |-> Len(result.tree[g])] = <<6, 24, 2>>

\* C8 (as stated): the same, with offset_along_edge the same at every index.
C8_EdgeProfilesMatch ==
    (pc = "returned" /\ result.method = "generate_cover_edge_corners") =>
      /\ SameCornersButOffsets
      /\ \A g \in DOMAIN TopCorners : \A i \in DOMAIN TopCorners[g] :
            TopCorners[g][i][1].offset_along_edge
              = BottomCorners[g][i][1].offset_along_edge

\* The six placements of a magnet fixture: forward, left, back, back, right
\* and forward-and-1.5-left of the keys, by bottom_cover_magnet_offset, and
\* down by edge_vertical_offset.
SixMagnets(shape) ==
    LET o == self.bottom_cover_magnet_offset
        d == -self.edge_vertical_offset
    IN << key_place(0, 0, Translate(<<0, o, d>>, shape)),
          key_place(0, 2, Translate(<<-o, 0, d>>, shape)),
          key_place(1, 4, Translate(<<0, -o, d>>, shape)),
          key_place(5, 4, Translate(<<0, -o, d>>, shape)),
          key_place(5, 2, Translate(<<o, 0, d>>, shape)),
          key_place(5, 0, Translate(<<-1500, o, d>>, shape)) >>

\* The magnet fixtures: the mounts of either shell and the hole.
MagnetFixtures ==
    {cover_magnet_mount(self, TRUE), cover_magnet_mount(self, FALSE),
     cover_magnet_hole(self, TRUE), cover_magnet_hole(self, FALSE)}

\* A magnet fixture placed at a key.
IsPlacedMagnet(s) ==
    /\ s.t = "key_place"
    /\ s.shape.t = "translate"
    /\ s.shape.shape \in MagnetFixtures

\* A cylinder of the magnet hole, mirrored about the plane z = 0.
MirrorZCyl(c) == [c EXCEPT !.r1 = c.r2, !.r2 = c.r1, !.z = -c.z]

\* The shell a part belongs to: finger_part is the top shell, the bottom
\* cover (whose holes single_piece subtracts) is not.
OfTopShell == result.method = "finger_part"

\* C9: place_cover_magnets places six copies of its argument, at (0,0),
\* (0,2), (1,4), (5,4), (5,2), (5,0) with the same offsets whatever the shape;
\* the magnet holes and mounts of finger_part, finger_bottom_cover and
\* single_piece are exactly such placements; the bottom cover's mount is
\* the top shell's mirrored about z = 0; and the hole is the same for both
\* values of top_shell and is its own mirror about z = 0.
C9_MagnetFixturesAlign ==
    (pc = "returned" /\ result.raised = "") =>
      /\ result.method = "place_cover_magnets(cover_magnet_mount)" =>
            result.tree = SixMagnets(cover_magnet_mount(self, result.arg[1]))
      /\ result.method = "place_cover_magnets(cover_magnet_hole)" =>
            result.tree = SixMagnets(cover_magnet_hole(self, result.arg[1]))
      /\ result.method = "finger_cover_edge" =>
            result.tree[1].magnets = SixMagnets(cover_magnet_mount(self, result.arg[1]))
      /\ result.method \in {"finger_part", "finger_bottom_cover", "single_piece"} =>
            \A i \in DOMAIN result.tree :
              LET term == result.tree[i]
              IN /\ term.part = "magnet_holes" =>
                      /\ term.op = "-"
                      /\ term.shapes = SixMagnets(cover_magnet_hole(self, OfTopShell))
                 /\ term.part = "cover_edge" =>
                      /\ term.op = "+"
                      /\ term.shapes[1].magnets
                           = SixMagnets(cover_magnet_mount(self, OfTopShell))
                 /\ term.part # "magnet_holes" =>
                      \A s \in Range(term.shapes) : ~IsPlacedMagnet(s)
      /\ result.method = "cover_magnet_mount" =>
            /\ cover_magnet_mount(self, FALSE)
                 = Mirror(<<0, 0, 1>>, cover_magnet_mount(self, TRUE))
            /\ result.tree[1] = IF result.arg[1]
                                THEN cover_magnet_mount(self, TRUE)
                                ELSE Mirror(<<0, 0, 1>>, cover_magnet_mount(self, TRUE))
      /\ result.method = "cover_magnet_hole" =>
            /\ result.tree[1] = cover_magnet_hole(self, ~result.arg[1])
            /\ {MirrorZCyl(c) : c \in Range(result.tree[1].shapes)}
                 = Range(result.tree[1].shapes)
            /\ Len(result.tree[1].shapes) = 7

\* finger_bottom_cover has returned with its six magnet holes subtracted.
C9_Witness ==
    /\ pc = "returned" /\ result.method = "finger_bottom_cover" /\ result.raised = ""
    /\ \E i \in DOMAIN result.tree :
          /\ result.tree[i].part = "magnet_holes"
          /\ Len(result.tree[i].shapes) = 6

\* The operand of the returned part with the given name.
Operand(part) == CHOOSE term \in Range(result.tree) : term.part = part

\* What the bottom cover has: a slab per key, the bottom-cover webs and the
\* cover edge with six magnet mounts.
CoverHasSlabsWebsEdge ==
    LET ps == generate_positions(finger_layout)
        parts == {result.tree[i].part : i \in DOMAIN result.tree}
    IN /\ {"slabs", "webs", "cover_edge"} \subseteq parts
       /\ Operand("slabs").op = "+"
       /\ Operand("slabs").shapes
            = [i \in DOMAIN ps |->
                 key_place(ps[i][1], ps[i][2],
                           switch_bottom_cover(self, PyInt(ps[i][1]), PyInt(ps[i][2])))]
       /\ Operand("webs").op = "+"
       /\ Operand("webs").shapes # <<>>
       /\ \A w \in Range(Operand("webs").shapes) : w.kw = bottom_cover_web_kwargs(self)
       /\ Operand("cover_edge").op = "+"
       /\ Len(Operand("cover_edge").shapes[1].hulls) = 29
       /\ Len(Operand("cover_edge").shapes[1].magnets) = 6
       /\ \A m \in Range(Operand("cover_edge").shapes[1].magnets) :
             m.shape.shape = cover_magnet_mount(self, FALSE)

\* C10 (as amended): the bottom cover finger_bottom_cover returns contains
\* the per-key slabs, the bottom-cover webs and the cover edge with the six
\* magnet mounts, and no feet; the four feet are what
\* finger_bottom_cover_feet returns, for the caller to add.
C10_BottomCoverWithoutFeet ==
    /\ (pc = "returned" /\ result.method = "finger_bottom_cover" /\ result.raised = "") =>
          /\ CoverHasSlabsWebsEdge
          /\ \A i \in DOMAIN result.tree : result.tree[i].part # "foot"
    /\ (pc = "returned" /\ result.method = "finger_bottom_cover_feet") =>
          /\ Len(result.tree) = 4
          /\ \A i \in DOMAIN result.tree :
                result.tree[i].part = "foot" /\ result.tree[i].op = "+"

\* finger_bottom_cover has returned the cover of the 6x5 grid.
C10_Witness ==
    /\ pc = "returned" /\ result.method = "finger_bottom_cover" /\ result.raised = ""
    /\ finger_layout.columns = 6 /\ finger_layout.rows = 5
    /\ Len(Operand("slabs").shapes) = 29

\* C10 (as stated): the bottom cover finger_bottom_cover returns contains
\* the slabs, the webs, the cover edge with the magnet mounts, and the feet.
C10_BottomCoverWithFeet ==
    (pc = "returned" /\ result.method = "finger_bottom_cover" /\ result.raised = "") =>
       /\ CoverHasSlabsWebsEdge
       /\ \E i \in DOMAIN result.tree : result.tree[i].part = "foot"

\* The names of the operands of the returned part, in order.
PartNames == [i \in DOMAIN result.tree |-> result.tree[i].part]

\* The operands of the returned part of the given name and sign.
Operands(op, part) ==
    {i \in DOMAIN result.tree : result.tree[i].part = part /\ result.tree[i].op = op}

\* C11: a finger_part that is returned contains the sockets (one per valid
\* position), the webs, the board mount, the connector mount and the
\* top-shell cover edge, each added once; the TrackPoint mount is added and
\* its holes subtracted exactly when enable_trackpoint is set and left_side
\* is not, and neither is there otherwise; a default-constructed assembly
\* has enable_trackpoint set and left_side unset.
C11_FingerPartComposition ==
    /\ KeyboardAssembly(FALSE, "None").enable_trackpoint
    /\ ~KeyboardAssembly(FALSE, "None").left_side
    /\ (pc = "returned" /\ result.method = "finger_part" /\ result.raised = "") =>
          /\ \A part \in {"sockets", "webs", "board_mount", "board_back_hull",
                           "board_front_hull", "board_frame", "connector_mount",
                           "cover_edge"} :
                Cardinality(Operands("+", part)) = 1 /\ Operands("-", part) = {}
          /\ Len(Operand("sockets").shapes) = Cardinality(ValidPositions)
          /\ \A s \in Range(Operand("sockets").shapes) :
                /\ <<s.column, s.row>> \in ValidPositions
                /\ s.shape = switch_socket(self, PyInt(s.column), PyInt(s.row))
          /\ Operand("webs").shapes = web_all(finger_layout, default_web_kwargs).tree
          /\ Operand("cover_edge").shapes[1].t = "finger_cover_edge"
          /\ \A h \in Range(Operand("cover_edge").shapes[1].hulls) : h.shapes[1].top_shell
          /\ IF self.enable_trackpoint /\ ~self.left_side
             THEN /\ Cardinality(Operands("+", "trackpoint_mount")) = 1
                  /\ Cardinality(Operands("-", "trackpoint_holes")) = 1
                  /\ Operands("-", "trackpoint_mount") = {}
                  /\ Operands("+", "trackpoint_holes") = {}
             ELSE \A i \in DOMAIN result.tree :
                     PartNames[i] \notin {"trackpoint_mount", "trackpoint_holes"}

\* finger_part has returned on a default-constructed assembly, with the
\* TrackPoint mount.
C11_Witness ==
    /\ pc = "returned" /\ result.method = "finger_part" /\ result.raised = ""
    /\ self = KeyboardAssembly(FALSE, "None")
    /\ Operands("+", "trackpoint_mount") # {}

IntegerValued(n) == n.v % 1000 = 0

\* The socket a call of switch_socket returned, before the mirroring of
\* the left-hand side.
SocketReturned == IF self.left_side THEN result.tree[1].shape ELSE result.tree[1]

\* The stabilizer mounts among the operands of a union.
StabilizerMounts(shape, along) ==
    {i \in 2..Len(shape.shapes) :
        \/ /\ shape.shapes[i].t = "translate"
           /\ shape.shapes[i] = StabilizerMount(along)
        \/ /\ shape.shapes[i].t = "mirror"
           /\ shape.shapes[i].shape = StabilizerMount(along)}

\* C13: switch_socket returns the base shape alone when row and column are
\* both integer-valued (ints, or floats such as 2.0), and the base shape
\* plus exactly two stabilizer mounts when either has a fractional part,
\* those of the row case (offset along Y) whenever the row is fractional,
\* those of the column case (offset along X) when only the column is.
C13_StabilizersIffFractional ==
    (pc = "returned" /\ result.method = "switch_socket") =>
        LET column == result.arg[1]
            row == result.arg[2]
            base == socket_shape_call(self, column, row)
        IN IF IntegerValued(row) /\ IntegerValued(column)
           THEN SocketReturned = base
           ELSE /\ SocketReturned.t = "union"
                /\ Len(SocketReturned.shapes) = 3
                /\ SocketReturned.shapes[1] = base
                /\ Cardinality(StabilizerMounts(SocketReturned,
                                                IF IntegerValued(row) THEN "x" ELSE "y")) = 2

\* switch_socket has returned for a position whose row and column are both
\* fractional, with the mounts of the row case.
C13_Witness ==
    /\ pc = "returned" /\ result.method = "switch_socket"
    /\ ~IntegerValued(result.arg[1]) /\ ~IntegerValued(result.arg[2])
    /\ Cardinality(StabilizerMounts(SocketReturned, "y")) = 2

\* C14: placement_adjust translates the shape by (0, 6.82, -4.0) when
\* column == 2, by (0, -20.8, 7.64) when column >= 4, and returns it
\* unchanged otherwise; the result is the same for every row, and the
\* shape is translated at most once.
C14_PlacementAdjust ==
    (pc = "returned" /\ result.method = "placement_adjust") =>
        LET column == result.arg[1]
            r == result.tree[1]
        IN /\ IF column.v = 2000
              THEN r.t = "translate" /\ r.v = <<0, 6820, -4000>>
              ELSE IF column.v >= 4000
              THEN r.t = "translate" /\ r.v = <<0, -20800, 7640>>
              ELSE r.t = "ext"
           /\ r.t = "translate" => r.shape = Ext("shape")
           /\ r.t = "ext" => r = Ext("shape")
           /\ \A row \in RowNumbers :
                 LET other == placement_adjust(column, row, Ext("shape"))
                 IN other.t = r.t /\ other = r

\* placement_adjust has returned the home-row correction for the float 2.0
\* at a fractional row.
C14_Witness ==
    /\ pc = "returned" /\ result.method = "placement_adjust"
    /\ result.arg[1] = PyFloat(2000) /\ ~IntegerValued(result.arg[2])
    /\ result.tree[1].t = "translate"

\* C15: column_adjust returns column + (column - 4) * 0.25 when the layout
\* has use_1_5u_keys and column >= 5, and the column itself otherwise; it
\* is never less than its argument and strictly increasing; the layout of
\* a KeyboardAssembly has the assembly's use_1_5u_keys, False by default,
\* although FingerWellLayout's own default is True, so on a default
\* assembly column_adjust is the identity.
C15_ColumnAdjust ==
    /\ ~KeyboardAssemblyDefaults.use_1_5u_keys
    /\ FingerWellLayoutDefault.use_1_5u_keys
    /\ \A u \in BOOLEAN : KeyboardAssemblyLayout(6, 5, u).use_1_5u_keys = u
    /\ (pc = "returned" /\ result.method = "column_adjust") =>
          LET column == result.arg[1]
              r == result.tree[1]
          IN /\ IF finger_layout.use_1_5u_keys /\ column.v >= 5000
                THEN 4 * r.v = 4 * column.v + (column.v - 4000)
                ELSE r = column
             /\ r.v >= column.v
             /\ \A smaller \in ColumnNumbers :
                   smaller.v < column.v => column_adjust(finger_layout, smaller).v < r.v
             /\ finger_layout = KeyboardAssemblyLayout(KeyboardAssemblyDefaults.columns,
                                                       KeyboardAssemblyDefaults.rows,
                                                       KeyboardAssemblyDefaults.use_1_5u_keys)
                  => r = column

\* column_adjust has widened column 5.5 to 5.875 on a layout with 1.5u keys.
C15_Witness ==
    /\ pc = "returned" /\ result.method = "column_adjust"
    /\ finger_layout.use_1_5u_keys
    /\ result.arg[1] = PyFloat(5500) /\ result.tree[1].v = 5875

\* The edge corner a call of cover_edge_corner returned, and the corner of
\* the same call with some arguments replaced.
CornerReturned == result.tree[1]
CornerWith(left, top, top_shell, outer) ==
    cover_edge_corner(self, result.arg[1], result.arg[2], result.arg[3],
                      left, top, top_shell, result.arg[7], outer)

\* The lowest and highest Z of a post, in the key's frame.
PostBottom(post) == post.z - post.size[3] \div 2
PostTop(post) == post.z + post.size[3] \div 2

\* C16: for the same side, column, row, left, top, offset_along_edge and
\* outer, the post of the top shell and the post of the bottom cover have
\* the same X/Y size and the same X/Y position at the same key; the
\* top-shell post spans z from -edge_vertical_offset to
\* -edge_vertical_offset + bottom_cover_post_size and the bottom-cover post
\* from -edge_vertical_offset - bottom_cover_post_size to
\* -edge_vertical_offset, so they meet at z = -edge_vertical_offset.
C16_EdgePostsMeet ==
    (pc = "returned" /\ result.method = "cover_edge_corner") =>
        LET this == CornerReturned
            other == CornerWith(this.left, this.top, ~this.top_shell, this.outer)
            upper == IF this.top_shell THEN this.post ELSE other.post
            lower == IF this.top_shell THEN other.post ELSE this.post
        IN /\ <<this.column, this.row>> = <<other.column, other.row>>
           /\ <<this.post.size[1], this.post.size[2]>> = <<other.post.size[1], other.post.size[2]>>
           /\ <<this.post.x_protusions, this.post.x>> = <<other.post.x_protusions, other.post.x>>
           /\ <<this.post.y_protusions, this.post.y>> = <<other.post.y_protusions, other.post.y>>
           /\ PostBottom(this.post) = IF this.top_shell
                                      THEN -self.edge_vertical_offset
                                      ELSE -self.edge_vertical_offset - self.bottom_cover_post_size
           /\ PostTop(this.post) = IF this.top_shell
                                   THEN -self.edge_vertical_offset + self.bottom_cover_post_size
                                   ELSE -self.edge_vertical_offset
           /\ PostBottom(upper) = PostTop(lower)

\* cover_edge_corner has returned a bottom-cover post, whose top is at
\* z = -edge_vertical_offset.
C16_Witness ==
    /\ pc = "returned" /\ result.method = "cover_edge_corner"
    /\ ~CornerReturned.top_shell
    /\ PostTop(CornerReturned.post) = -self.edge_vertical_offset

\* The post's displacement across the edge (X of a side post, Y of a
\* top/bottom post): the multiple of bottom_cover_edge_protusion and the
\* micrometres added; and its displacement along the edge, in micrometres.
\* X grows to the right and Y to the top.
Across(c) == IF c.side THEN <<c.post.x_protusions, c.post.x>>
                       ELSE <<c.post.y_protusions, c.post.y>>
Along(c) == IF c.side THEN c.post.y ELSE c.post.x

\* The flag that chooses the direction across the edge (left of a side
\* post, top of a top/bottom post) and the one along it.
AcrossFlag(c) == IF c.side THEN c.left ELSE c.top
AlongFlag(c) == IF c.side THEN c.top ELSE c.left

\* The corner of the same call with the across flag, or the along flag,
\* negated.
AcrossFlipped(c) == IF c.side THEN CornerWith(~c.left, c.top, c.top_shell, c.outer)
                              ELSE CornerWith(c.left, ~c.top, c.top_shell, c.outer)
AlongFlipped(c) == IF c.side THEN CornerWith(c.left, ~c.top, c.top_shell, c.outer)
                             ELSE CornerWith(~c.left, c.top, c.top_shell, c.outer)

\* +1 towards the top or the right, -1 towards the bottom or the left.
AcrossDirection(c) == IF c.side THEN (IF c.left THEN -1 ELSE 1) ELSE (IF c.top THEN 1 ELSE -1)
AlongDirection(c) == IF c.side THEN (IF c.top THEN 1 ELSE -1) ELSE (IF c.left THEN -1 ELSE 1)

\* The size of the post across the edge and along it.
SizeAcross(c) == IF c.side THEN c.post.size[1] ELSE c.post.size[2]
SizeAlong(c) == IF c.side THEN c.post.size[2] ELSE c.post.size[1]

\* The sizes of the post and the shift of the outer post, as C17 states
\* them: bottom_cover_thickness across the edge and bottom_cover_post_size
\* otherwise when not outer, bottom_cover_post_size in all dimensions when
\* outer; the outer post is (bottom_cover_thickness -
\* bottom_cover_post_size) / 2 further out than the full-thickness one, so
\* their outermost faces coincide.
PostSizesAndOuterShift(c) ==
    LET full == CornerWith(c.left, c.top, c.top_shell, FALSE)
    IN /\ SizeAcross(c) = IF c.outer THEN self.bottom_cover_post_size
                                     ELSE self.bottom_cover_thickness
       /\ SizeAlong(c) = self.bottom_cover_post_size
       /\ c.post.size[3] = self.bottom_cover_post_size
       /\ Across(c)[1] = AcrossDirection(c)
       /\ Across(full) = <<AcrossDirection(c), 0>>
       /\ c.outer =>
             /\ 2 * (Across(c)[2] - Across(full)[2]) * AcrossDirection(c)
                   = self.bottom_cover_thickness - self.bottom_cover_post_size
             /\ 2 * Across(c)[2] * AcrossDirection(c) + SizeAcross(c)
                   = 2 * Across(full)[2] * AcrossDirection(c) + SizeAcross(full)

\* C17 as stated: the sizes and the outer shift, and the post is displaced
\* to the left/top for left/top = True and to the right/bottom for False,
\* by the same magnitude, across the edge and along it.
C17_DisplacedBySameMagnitude ==
    (pc = "returned" /\ result.method = "cover_edge_corner") =>
        LET c == CornerReturned
        IN /\ PostSizesAndOuterShift(c)
           /\ Across(AcrossFlipped(c)) = <<-Across(c)[1], -Across(c)[2]>>
           /\ Along(c) * AlongDirection(c) > 0
           /\ Along(AlongFlipped(c)) = -Along(c)

\* C17, amended: the sizes and the outer shift are as stated; across the
\* edge the post is displaced by bottom_cover_edge_protusion (plus the
\* outer shift) to the left/top for left/top = True and by the same
\* magnitude to the right/bottom for False; along the edge it is at
\* (10 if flag else -10) + offset_along_edge, to which offset_along_edge
\* is added with the same sign for both values of the flag.
C17_PostSizeAndDisplacement ==
    (pc = "returned" /\ result.method = "cover_edge_corner") =>
        LET c == CornerReturned
        IN /\ PostSizesAndOuterShift(c)
           /\ Across(AcrossFlipped(c)) = <<-Across(c)[1], -Across(c)[2]>>
           /\ Along(c) * (IF c.side THEN 1 ELSE -1)
                 = (IF AlongFlag(c) THEN 10000 ELSE -10000) + c.offset_along_edge
           /\ (Along(c) - Along(AlongFlipped(c))) * AlongDirection(c) = 20000

\* cover_edge_corner has returned an outer post with offset_along_edge = 3:
\* it is 13 mm along the edge for top = True, where top = False gives -7.
C17_Witness ==
    /\ pc = "returned" /\ result.method = "cover_edge_corner"
    /\ CornerReturned.outer /\ CornerReturned.side /\ CornerReturned.top
    /\ CornerReturned.offset_along_edge = 3000
    /\ Along(CornerReturned) = 13000
    /\ Along(AlongFlipped(CornerReturned)) = -7000

\* The keyword arguments of every finger_layout.web_corner / web_* call
\* inside a shape.
RECURSIVE WebKwargsIn(_)
WebKwargsIn(s) ==
    CASE s.t \in {"web_corner", "web_top_left_of", "web_left_of", "web_above"} -> {s.kw}
      [] s.t \in {"hull", "union"} ->
            UNION {WebKwargsIn(s.shapes[i]) : i \in DOMAIN s.shapes}
      [] s.t \in {"translate", "mirror", "transform", "key_place", "key_place_at"} ->
            WebKwargsIn(s.shape)
      [] s.t = "finger_cover_edge" ->
            UNION ({WebKwargsIn(s.hulls[i]) : i \in DOMAIN s.hulls}
                   \cup {WebKwargsIn(s.magnets[i]) : i \in DOMAIN s.magnets})
      [] s.t = "part" ->
            UNION {UNION {WebKwargsIn(s.tree[i].shapes[j]) : j \in DOMAIN s.tree[i].shapes} :
                   i \in DOMAIN s.tree}
      [] OTHER -> {}

\* The keyword arguments of the web calls of the method that returned.
WebKwargsReturned ==
    IF result.method = "generate_cover_edge_corners"
    THEN UNION {{result.tree[g][i][2].kw : i \in DOMAIN result.tree[g]} :
                g \in DOMAIN result.tree}
    ELSE IF result.method = "finger_cover_edge"
    THEN WebKwargsIn(result.tree[1])
    ELSE WebKwargsIn([t |-> "part", tree |-> result.tree])

\* The methods that build the bottom cover, and those of the top shell.
BottomCoverMethods ==
    {"finger_bottom_cover", "finger_bottom_cover_nuts",
     "finger_bottom_cover_with_tripod_mount", "finger_bottom_cover_with_t_nut"}
TopShellMethods == {"finger_part", "single_piece"}

\* C18: every finger web_all / web_corner call of the bottom cover
\* (finger_bottom_cover, generate_cover_edge_corners and finger_cover_edge
\* with top_shell = False, finger_bottom_cover_nuts, the tripod and T-nut
\* variants) is passed z_offset = -bottom_cover_offset, thickness =
\* bottom_cover_thickness, size_adjust = bottom_cover_size_adjust and
\* position_adjust = bottom_cover_position_adjust; every such call of the
\* top shell is passed none of them; the callbacks return zero in Y, size
\* (2, 0) at column 2 and (-2, 0) at column 4, position (-2, 0) at column 1
\* and (2, 0) at columns 3 and 4, and (0, 0) at every other column.
C18_BottomCoverWebKwargs ==
    (pc = "returned" /\ result.raised = "") =>
        LET bottom == [z_offset |-> -self.bottom_cover_offset,
                       thickness |-> Some(self.bottom_cover_thickness),
                       size_adjust |-> Some("bottom_cover_size_adjust"),
                       position_adjust |-> Some("bottom_cover_position_adjust")]
            none == [z_offset |-> 0, thickness |-> None, size_adjust |-> None,
                     position_adjust |-> None]
            column == result.arg[1]
        IN /\ result.method \in BottomCoverMethods => WebKwargsReturned = {bottom}
           /\ result.method \in TopShellMethods => WebKwargsReturned = {none}
           /\ result.method \in {"generate_cover_edge_corners", "finger_cover_edge"} =>
                 WebKwargsReturned = {IF result.arg[1] THEN none ELSE bottom}
           /\ result.method = "bottom_cover_size_adjust" =>
                 result.tree[1] = CASE column = 2 -> <<2000, 0>>
                                    [] column = 4 -> <<-2000, 0>>
                                    [] OTHER -> <<0, 0>>
           /\ result.method = "bottom_cover_position_adjust" =>
                 result.tree[1] = CASE column = 1 -> <<-2000, 0>>
                                    [] column \in {3, 4} -> <<2000, 0>>
                                    [] OTHER -> <<0, 0>>

\* The T-nut variant of the bottom cover has returned, with the bottom
\* cover's keyword arguments on its web corners.
C18_Witness ==
    /\ pc = "returned" /\ result.raised = ""
    /\ result.method = "finger_bottom_cover_with_t_nut"
    /\ bottom_cover_web_kwargs(self) \in WebKwargsReturned

\* The axis (1 for X, 2 for Y) along which a stabilizer mount is moved off
\* the socket's centre, and the unit vector along it.
OffsetAxis(mount) == CHOOSE i \in 1..2 : mount.v[i].sign # 0
AxisVector(i) == [j \in 1..3 |-> IF j = i THEN 1 ELSE 0]

\* Where mirror(v) takes a point: the components along v change sign.
MirrorImage(point, v) ==
    [j \in 1..3 |-> IF v[j] = 1 THEN Sym(-point[j].sign, point[j].expr) ELSE point[j]]

\* C19: the second stabilizer mount of a fractional position is the first
\* one mirrored across the axis along which the first is moved off centre
\* (Y for a fractional row, X for a fractional column), so it lies on the
\* opposite side of the socket and does not coincide with the first.
C19_StabilizersOnOppositeSides ==
    (/\ pc = "returned" /\ result.method = "switch_socket"
     /\ ~(IntegerValued(result.arg[1]) /\ IntegerValued(result.arg[2]))) =>
        LET first == SocketReturned.shapes[2]
            second == SocketReturned.shapes[3]
        IN /\ first.t = "translate" /\ second.t = "mirror"
           /\ second.shape = first
           /\ OffsetAxis(first) = IF IntegerValued(result.arg[2]) THEN 1 ELSE 2
           /\ second.v = AxisVector(OffsetAxis(first))
           /\ MirrorImage(first.v, second.v) # first.v

\* The socket switch_socket returns for the position of the call that
\* returned, before the mirroring of the left-hand side.
SocketFor(column, row) ==
    IF self.left_side THEN switch_socket(self, column, row).shape
                      ELSE switch_socket(self, column, row)

\* The socket has its two stabilizer mounts along the axis.
HasStabilizers(socket, along) ==
    socket.t = "union" /\ Cardinality(StabilizerMounts(socket, along)) = 2

\* C20: switch_bottom_cover classifies the position as switch_socket does
\* (fractional row, else fractional column, else plain key): the slab is
\* sa_double_length long in Y exactly when the socket has its stabilizer
\* mounts along Y, sa_double_length wide in X exactly when the socket has
\* them along X, and of the plain key's size exactly when the socket is
\* plain; it is always bottom_cover_thickness thick with its upper face at
\* z = -bottom_cover_offset.
C20_SlabFollowsSocket ==
    (pc = "returned" /\ result.method = "switch_bottom_cover") =>
        LET column == result.arg[1]
            row == result.arg[2]
            slab == result.tree[1]
            socket == SocketFor(column, row)
            class == IF ~IntegerValued(row) THEN "y"
                     ELSE IF ~IntegerValued(column) THEN "x" ELSE "plain"
        IN /\ slab.t = "translate" /\ slab.shape.t = "cube"
           /\ slab.shape.y.base = (IF class = "y" THEN "sa_double_length"
                                   ELSE "keyswitch_length + wall_thickness * 2")
           /\ slab.shape.x.base = (IF class = "x" THEN "sa_double_length"
                                   ELSE "keyswitch_width + wall_thickness * 2")
           /\ HasStabilizers(socket, "y") <=> slab.shape.y.base = "sa_double_length"
           /\ HasStabilizers(socket, "x") <=> slab.shape.x.base = "sa_double_length"
           /\ socket.t # "union" <=>
                 /\ slab.shape.x.base = "keyswitch_width + wall_thickness * 2"
                 /\ slab.shape.y.base = "keyswitch_length + wall_thickness * 2"
           /\ slab.shape.z = self.bottom_cover_thickness
           /\ 2 * slab.v[3] + slab.shape.z = -2 * self.bottom_cover_offset

\* switch_bottom_cover has returned the slab of a position whose row and
\* column are both fractional: it is lengthened in Y, as the socket is.
C20_Witness ==
    /\ pc = "returned" /\ result.method = "switch_bottom_cover"
    /\ ~IntegerValued(result.arg[1]) /\ ~IntegerValued(result.arg[2])
    /\ result.tree[1].shape.y.base = "sa_double_length"
    /\ HasStabilizers(SocketFor(result.arg[1], result.arg[2]), "y")

\* The hulls of the cover edge that returned, the sizes of the three groups
\* of generate_cover_edge_corners and the number of hulls before a group's.
EdgeHullsReturned == result.tree[1].hulls
GroupSizes == <<6, 24, 2>>
HullsBefore(g) == IF g = 1 THEN 0 ELSE IF g = 2 THEN 5 ELSE 28

\* Two keys are the same or neighbours in the grid.
AdjacentKeys(a, b) ==
    /\ a.column - b.column \in {-1, 0, 1}
    /\ a.row - b.row \in {-1, 0, 1}

\* C21: finger_cover_edge returns 5 + 23 + 1 = 29 hulls for the groups of
\* 6, 24 and 2 corner pairs: the i-th hull of a group is over the i-th and
\* the (i+1)-th corner pair of that group, four shapes (edge post, web
\* corner, edge post, web corner); no hull is over the last pair of a
\* group and the first of the next; and the two corner pairs of a hull
\* are at the same key or at grid-adjacent keys.
C21_HullsWithinGroups ==
    (pc = "returned" /\ result.method = "finger_cover_edge") =>
        LET groups == generate_cover_edge_corners(self, result.arg[1])
            hulls == EdgeHullsReturned
        IN /\ [g \in DOMAIN groups |-> Len(groups[g])] = GroupSizes
           /\ Len(hulls) = 29
           /\ \A g \in DOMAIN groups : \A i \in 1..(Len(groups[g]) - 1) :
                 hulls[HullsBefore(g) + i].shapes = groups[g][i] \o groups[g][i + 1]
           /\ \A k \in DOMAIN hulls : \A g \in 1..(Len(groups) - 1) :
                 hulls[k].shapes # groups[g][Len(groups[g])] \o groups[g + 1][1]
           /\ \A k \in DOMAIN hulls :
                 LET h == hulls[k].shapes
                 IN /\ hulls[k].t = "hull"
                    /\ Len(h) = 4
                    /\ [j \in 1..4 |-> h[j].t]
                          = <<"cover_edge_corner", "web_corner", "cover_edge_corner", "web_corner">>
                    /\ AdjacentKeys(h[1], h[3])
                    /\ AdjacentKeys(h[2], h[4])
                    /\ <<h[1].column, h[1].row>> = <<h[2].column, h[2].row>>
                    /\ <<h[3].column, h[3].row>> = <<h[4].column, h[4].row>>

\* finger_cover_edge has returned its 29 hulls; the sixth is the first of
\* the second group, from key (1, 4), and the last is at key (0, 0).
C21_Witness ==
    /\ pc = "returned" /\ result.method = "finger_cover_edge"
    /\ Len(EdgeHullsReturned) = 29
    /\ <<EdgeHullsReturned[6].shapes[1].column, EdgeHullsReturned[6].shapes[1].row>> = <<1, 4>>
    /\ <<EdgeHullsReturned[29].shapes[1].column, EdgeHullsReturned[29].shapes[1].row>> = <<0, 0>>

\* The operations of a part's expression in the order they are applied:
\* a part that is added as an operand contributes its own operations.
RECURSIVE FlatOps(_)
FlatOps(tree) ==
    IF tree = <<>> THEN <<>>
    ELSE LET term == Head(tree)
         IN (IF term.op = "+" /\ Len(term.shapes) = 1 /\ term.shapes[1].t = "part"
             THEN FlatOps(term.shapes[1].tree)
             ELSE <<[op |-> term.op, part |-> term.part]>>)
            \o FlatOps(Tail(tree))

\* The operations of the part that returned; where the magnet mounts are
\* added (with the cover edge) and where the magnet holes are subtracted.
OpsReturned == FlatOps(result.tree)
MountsAdded == {i \in DOMAIN OpsReturned : OpsReturned[i] = [op |-> "+", part |-> "cover_edge"]}
HolesSubtracted ==
    {i \in DOMAIN OpsReturned : OpsReturned[i] = [op |-> "-", part |-> "magnet_holes"]}

\* The names of what is added after the last subtraction of the magnet
\* holes, in order.
AddedAfterHoles ==
    LET last == CHOOSE i \in HolesSubtracted : \A j \in HolesSubtracted : j <= i
        later(o) == o.op = "+"
        ops == SelectSeq(SubSeq(OpsReturned, last + 1, Len(OpsReturned)), later)
    IN [i \in DOMAIN ops |-> ops[i].part]

\* The parts that contain magnet mounts.
MagnetParts ==
    {"finger_part", "finger_bottom_cover", "single_piece",
     "finger_bottom_cover_with_tripod_mount", "finger_bottom_cover_with_t_nut"}

\* C22 as stated: in every part with magnet mounts the magnet holes are
\* subtracted after the mounts are added, and nothing is added to the part
\* after the holes are subtracted.
C22_NothingAddedAfterHoles ==
    (pc = "returned" /\ result.raised = "" /\ result.method \in MagnetParts) =>
        /\ MountsAdded # {} /\ HolesSubtracted # {}
        /\ \A m \in MountsAdded : \E h \in HolesSubtracted : m < h
        /\ AddedAfterHoles = <<>>

\* C22, amended: in every part with magnet mounts the magnet holes are
\* subtracted after the mounts are added; after the last such subtraction
\* finger_bottom_cover and single_piece add nothing, finger_part adds the
\* TrackPoint mount when enable_trackpoint is set and left_side is not,
\* the tripod-mount cover adds the tripod mount and the prongs, and the
\* T-nut cover adds its mount.
C22_HolesAfterMounts ==
    (pc = "returned" /\ result.raised = "" /\ result.method \in MagnetParts) =>
        /\ MountsAdded # {} /\ HolesSubtracted # {}
        /\ \A m \in MountsAdded : \E h \in HolesSubtracted : m < h
        /\ AddedAfterHoles =
              CASE result.method = "finger_part" ->
                      IF self.enable_trackpoint /\ ~self.left_side
                      THEN <<"trackpoint_mount">> ELSE <<>>
                [] result.method = "finger_bottom_cover_with_tripod_mount" ->
                      <<"tripod_mount", "prongs">>
                [] result.method = "finger_bottom_cover_with_t_nut" -> <<"tripod_mount">>
                [] OTHER -> <<>>

\* finger_part has returned on the right-hand side with the TrackPoint
\* mount, which is added after the magnet holes are subtracted.
C22_Witness ==
    /\ pc = "returned" /\ result.raised = "" /\ result.method = "finger_part"
    /\ self.enable_trackpoint /\ ~self.left_side
    /\ HolesSubtracted # {}
    /\ AddedAfterHoles = <<"trackpoint_mount">>

\* The web elements web_all has yielded so far, or returned.
WebsYielded ==
    IF pc = "web_all" THEN frame.out
    ELSE IF pc = "returned" /\ result.method = "web_all" THEN result.tree
    ELSE <<>>

\* The positions of the grid's rectangle.
GridPositions == (0..(finger_layout.columns - 1)) \X (0..(finger_layout.rows - 1))

\* C23: on every grid, every web element web_all yields connects only
\* positions inside the grid: web_left_of and web_top_left_of are yielded
\* only for column >= 1, web_above and web_top_left_of only for row >= 1,
\* no neighbour has column -1 or row -1, and no (kind, column, row) is
\* yielded twice.
C23_WebsInsideGrid ==
    /\ \A i \in DOMAIN WebsYielded :
          LET w == WebsYielded[i]
          IN /\ w.t \in {"web_left_of", "web_top_left_of"} => w.column >= 1
             /\ w.t \in {"web_above", "web_top_left_of"} => w.row >= 1
             /\ web_connects(w) \subseteq GridPositions
             /\ \A p \in web_connects(w) : p[1] # -1 /\ p[2] # -1
    /\ \A i, j \in DOMAIN WebsYielded :
          i # j => <<WebsYielded[i].t, WebsYielded[i].column, WebsYielded[i].row>>
                     # <<WebsYielded[j].t, WebsYielded[j].column, WebsYielded[j].row>>

\* web_all has returned on a grid of one column and several rows: its
\* webs are the web_above of rows 1 and up, none of them left of column 0.
C23_Witness ==
    /\ pc = "returned" /\ result.method = "web_all" /\ result.raised = ""
    /\ finger_layout.columns = 1 /\ finger_layout.rows = 3
    /\ Len(WebsYielded) = 2
    /\ \A i \in DOMAIN WebsYielded : WebsYielded[i].t = "web_above"

====
